---- MODULE Spec2Model ----
(***************************************************************************)
(* EduPath Optimizer, AI engine: RiskPredictor, CounterfactualEngine and   *)
(* KnowledgeGraph (src/backend/ai_engine).                                 *)
(*                                                                         *)
(* Numbers.  Python floats are modelled in fixed point:                    *)
(*   - probabilities and risks in units of 1e-5 (ProbScale), so that the   *)
(*     code's round(x, 4) is a real rounding to a multiple of 10 units;    *)
(*   - feature slots, intervention deltas and edge strengths in units of   *)
(*     1/100 (FeatScale).                                                  *)
(* Python indices are 0-based, sequences here are 1-based: slot idx of the *)
(* code is element idx + 1 of a vector.                                    *)
(***************************************************************************)
EXTENDS Integers, Sequences, FiniteSets, TLC

VARIABLES
    model,              \* RiskPredictor.model
    calibrated_model,   \* RiskPredictor.calibrated_model
    is_trained,         \* RiskPredictor.is_trained
    store,              \* the file at RiskPredictor.model_path
    ever_ready,         \* history: a train or load_model call has completed
    graph,              \* KnowledgeGraph.graph: nodes and edges, in insertion order
    added,              \* history: the number of add_dependency calls made
    pc,                 \* propagate_risk: "idle", or "loop" inside the while loop
    queue,              \* propagate_risk: the local queue
    visited,            \* propagate_risk: the local visited set
    propagated_risks,   \* propagate_risk: the local result dictionary
    expanded,           \* history: the courses whose successors the call processed
    writer,             \* the thread inside train or load_model, and its line
    reader,             \* the thread inside predict, and what its last runs read
    ret                 \* the last call: operation, arguments, outcome, value

predictor_vars == <<model, calibrated_model, is_trained, store, ever_ready>>
propagate_vars == <<pc, queue, visited, propagated_risks, expanded>>
graph_vars == <<graph, added, pc, queue, visited, propagated_risks, expanded>>
thread_vars == <<writer, reader>>
vars == <<model, calibrated_model, is_trained, store, ever_ready,
          graph, added, pc, queue, visited, propagated_risks, expanded,
          writer, reader, ret>>

----------------------------------------------------------------------------
(* Fixed point                                                             *)

ProbScale == 100000
FeatScale == 100

Abs(x) == IF x < 0 THEN -x ELSE x
Min2(a, b) == IF a < b THEN a ELSE b
Max2(a, b) == IF a > b THEN a ELSE b

\* n / d rounded to the nearest integer, ties to the even one (d > 0):
\* Python's round() rule.
RoundDiv(n, d) ==
    LET q == n \div d
        r == n % d
    IN  IF 2 * r < d THEN q
        ELSE IF 2 * r > d THEN q + 1
        ELSE IF q % 2 = 0 THEN q ELSE q + 1

\* round(x, 4) of a value held in units of 1e-5: the nearest multiple of 10.
Round4(x) == 10 * RoundDiv(x, 10)

\* np.clip(v, 0.0, 1.0) on a feature slot
Clip01(v) == Max2(0, Min2(FeatScale, v))

----------------------------------------------------------------------------
(* Estimators.  A fitted ensemble is a bias and a set of decision stumps   *)
(* over feature slots; predict_proba adds the gains of the stumps whose    *)
(* slot exceeds the threshold and clamps to [0, 1].                        *)

NoEstimator == [state |-> "none", bias |-> 0, stumps |-> {}]
Unfitted == [state |-> "unfitted", bias |-> 0, stumps |-> {}]
Fitted(c) == [state |-> "fitted", bias |-> c.bias, stumps |-> c.stumps]

RECURSIVE SumGains(_, _)
SumGains(S, x) ==
    IF S = {} THEN 0
    ELSE LET s == CHOOSE t \in S : TRUE
         IN  (IF s.slot + 1 <= Len(x) /\ x[s.slot + 1] > s.thr THEN s.gain ELSE 0)
             + SumGains(S \ {s}, x)

\* calibrated_model.predict_proba(features)[0][1], in units of 1e-5
predict_proba(est, features) ==
    Max2(0, Min2(ProbScale, est.bias + SumGains(est.stumps, features)))

----------------------------------------------------------------------------
(* FeatureEngineer (feature_engineering.py).  A student record has the     *)
(* fields of the student_data dictionary; marks_history is the sequence of *)
(* the subjects' marks sequences.  Values are integers (percentages,       *)
(* marks out of 20); every slot is computed as the code computes it and    *)
(* rounded to 1/100.                                                       *)

RECURSIVE SeqSum(_)
SeqSum(s) == IF s = <<>> THEN 0 ELSE Head(s) + SeqSum(Tail(s))

RECURSIVE SeqMin(_)
SeqMin(s) == IF Len(s) = 1 THEN s[1] ELSE Min2(Head(s), SeqMin(Tail(s)))

RECURSIVE SeqMax(_)
SeqMax(s) == IF Len(s) = 1 THEN s[1] ELSE Max2(Head(s), SeqMax(Tail(s)))

\* the last k elements (all of them when there are fewer): s[-k:]
LastK(s, k) == SubSeq(s, Max2(1, Len(s) - k + 1), Len(s))
\* the first k elements: s[:k]
FirstK(s, k) == SubSeq(s, 1, Min2(k, Len(s)))

\* largest r with r * r <= n
RECURSIVE ISqrtFrom(_, _, _)
ISqrtFrom(n, lo, hi) ==
    IF lo >= hi THEN lo
    ELSE LET mid == (lo + hi + 1) \div 2
         IN  IF mid * mid <= n THEN ISqrtFrom(n, mid, hi)
             ELSE ISqrtFrom(n, lo, mid - 1)
ISqrt(n) == ISqrtFrom(n, 0, 40000)

\* linregress(arange(len(y)), y).slope as the fraction num / den (den > 0)
SlopeNum(y) ==
    LET n == Len(y)
    IN  n * SeqSum([i \in 1..n |-> (i - 1) * y[i]])
        - SeqSum([i \in 1..n |-> i - 1]) * SeqSum(y)
SlopeDen(y) ==
    LET n == Len(y)
    IN  n * SeqSum([i \in 1..n |-> (i - 1) * (i - 1)])
        - SeqSum([i \in 1..n |-> i - 1]) * SeqSum([i \in 1..n |-> i - 1])

\* np.std(y) * 100 (population standard deviation)
Std100(y) ==
    LET n == Len(y)
    IN  ISqrt(10000 * (n * SeqSum([i \in 1..n |-> y[i] * y[i]])
                       - SeqSum(y) * SeqSum(y))) \div n

\* np.mean(y) * 100
Mean100(y) == RoundDiv(100 * SeqSum(y), Len(y))

_extract_attendance_features(attendance) ==
    IF Len(attendance) < 2 THEN <<0, 0, 0, 0, 0, 0>>
    ELSE
    LET n == Len(attendance)
        current == attendance[n]
        trend == RoundDiv(10 * SlopeNum(attendance), SlopeDen(attendance))
        volatility == Std100(attendance) \div 100
        recent_mean100 == IF n >= 3 THEN Mean100(LastK(attendance, 3))
                                    ELSE 100 * attendance[n]
        early_mean100 == IF n >= 3 THEN Mean100(FirstK(attendance, 3))
                                   ELSE 100 * attendance[1]
        decline == RoundDiv(early_mean100 - recent_mean100, 100)
        declines == Cardinality({i \in 2..n : attendance[i] < attendance[i - 1]})
        decline_ratio == RoundDiv(100 * declines, n)
        min_attendance == SeqMin(attendance)
    IN  <<current, trend, volatility, decline, decline_ratio, min_attendance>>

\* the subjects that contribute: at least 2 recorded marks
WithHistory(marks_history) ==
    SelectSeq(marks_history, LAMBDA m : Len(m) >= 2)

\* np.median(v) * 2 of a non-empty sequence of numbers
Median2(v) ==
    LET n == Len(v)
        rank(i) == Cardinality({j \in 1..n : v[j] < v[i] \/ (v[j] = v[i] /\ j < i)})
        at(k) == v[CHOOSE i \in 1..n : rank(i) = k]
    IN  IF n % 2 = 1 THEN 2 * at(n \div 2)
        ELSE at(n \div 2 - 1) + at(n \div 2)

marks_features_unpadded(marks_history) ==
    IF marks_history = <<>> THEN <<>>
    ELSE <<0, 0, 0, 0, 0, 0, 0, 100 * Len(marks_history)>>

_extract_marks_features(marks_history) ==
    IF marks_history = <<>> THEN <<0, 0, 0, 0, 0, 0, 0, 0>>
    ELSE
    LET used == WithHistory(marks_history)
        k == Len(used)
        total == Max2(Len(marks_history), 1)
        all_means == [i \in 1..k |-> Mean100(used[i])]
        all_recent == [i \in 1..k |-> Mean100(LastK(used[i], 2))]
        avg_trend ==
            IF k = 0 THEN 0
            ELSE RoundDiv(SeqSum([i \in 1..k |->
                     RoundDiv(1000 * SlopeNum(used[i]), SlopeDen(used[i]))]), 100 * k)
        avg_volatility ==
            IF k = 0 THEN 0
            ELSE RoundDiv(SeqSum([i \in 1..k |-> Std100(used[i])]), 20 * k)
        avg_performance ==
            IF k = 0 THEN 0 ELSE RoundDiv(SeqSum(all_means), 20 * k)
        recent_performance ==
            IF k = 0 THEN 0 ELSE RoundDiv(SeqSum(all_recent), 20 * k)
        declining_subjects ==
            Cardinality({i \in 1..k : 2 * SlopeNum(used[i]) < -SlopeDen(used[i])})
        declining_ratio == RoundDiv(100 * declining_subjects, total)
        performance_range ==
            IF k = 0 THEN 0 ELSE RoundDiv(SeqMax(all_means) - SeqMin(all_means), 20)
        weak_subjects ==
            IF k = 0 THEN 0
            ELSE Cardinality({i \in 1..k : 2 * all_means[i] < Median2(all_means)})
        weak_ratio == RoundDiv(100 * weak_subjects, total)
    IN  <<avg_trend, avg_volatility, avg_performance, recent_performance,
          declining_ratio, performance_range, weak_ratio,
          100 * Len(marks_history)>>

\* difficulty_map.get(subj, 0.70)
Difficulty(subj) ==
    CASE subj = "Math" -> 90
      [] subj = "Calculus" -> 95
      [] subj = "Linear Algebra" -> 85
      [] subj = "Physics" -> 85
      [] subj = "Chemistry" -> 80
      [] subj = "Programming" -> 88
      [] subj = "Data Structures" -> 90
      [] subj = "Algorithms" -> 92
      [] subj = "Database" -> 75
      [] subj = "Networks" -> 78
      [] OTHER -> 70

_extract_load_features(subjects, semester) ==
    LET subject_count == Len(subjects)
        semester_factor == RoundDiv(100 * semester, 8)
        load_intensity == RoundDiv(100 * subject_count, 6)
        avg_difficulty ==
            IF subject_count = 0 THEN 70
            ELSE RoundDiv(SeqSum([i \in 1..subject_count |-> Difficulty(subjects[i])]),
                          subject_count)
    IN  <<100 * subject_count, semester_factor, load_intensity, avg_difficulty>>

_extract_engagement_features(attendance, marks_history) ==
    LET graded == SelectSeq(marks_history, LAMBDA m : Len(m) > 0)
        g == Len(graded)
        last_marks == SeqSum([i \in 1..g |-> graded[i][Len(graded[i])]])
        engagement_score ==
            IF Len(attendance) >= 3 /\ marks_history # <<>>
            THEN IF g = 0 THEN 0
                 ELSE RoundDiv(SeqSum(LastK(attendance, 3)) * last_marks, 3 * g * 20)
            ELSE 50
        data_completeness == Min2(10 * Len(attendance), 100)
    IN  <<engagement_score, data_completeness>>

extract_features(student_data) ==
    _extract_attendance_features(student_data.attendance_history)
    \o _extract_marks_features(student_data.marks_history)
    \o _extract_load_features(student_data.current_subjects, student_data.semester)
    \o <<100 * student_data.previous_failures,
         RoundDiv(100 * student_data.previous_failures,
                  Max2(student_data.semester, 1))>>
    \o _extract_engagement_features(student_data.attendance_history,
                                    student_data.marks_history)

\* get_feature_names()
get_feature_names ==
    <<"attendance_current", "attendance_trend", "attendance_volatility",
      "attendance_decline", "decline_ratio", "min_attendance",
      "marks_trend", "marks_volatility", "avg_performance", "recent_performance",
      "declining_subjects_ratio", "performance_range", "weak_subjects_ratio",
      "subject_count_marks",
      "subject_count", "semester_factor", "load_intensity", "avg_difficulty",
      "previous_failures", "failure_rate",
      "engagement_score", "data_completeness">>

\* The student records the calls are made with.
Students ==
    { [attendance_history |-> <<75, 72, 68, 65, 62>>,
       marks_history |-> << <<15, 17, 14>>, <<18, 16, 15>> >>,
       current_subjects |-> <<"Math", "Physics", "Chemistry">>,
       semester |-> 3, previous_failures |-> 1],
      [attendance_history |-> <<>>,
       marks_history |-> <<>>,
       current_subjects |-> <<>>,
       semester |-> 1, previous_failures |-> 0],
      [attendance_history |-> <<88, 92, 97>>,
       marks_history |-> << <<18, 19>>, <<12>>, <<16, 18, 19>> >>,
       current_subjects |-> <<"Algorithms", "History">>,
       semester |-> 5, previous_failures |-> 0],
      [attendance_history |-> <<85, 70, 55, 45>>,
       marks_history |-> << <<9>>, <<>> >>,
       current_subjects |-> <<"Calculus">>,
       semester |-> 2, previous_failures |-> 2] }

FeatureOf == [s \in Students |-> extract_features(s)]

----------------------------------------------------------------------------
(* RiskPredictor (risk_predictor.py)                                       *)

NoValue == [failure_probability |-> -1, confidence |-> -1,
            risk_level |-> "none", prediction |-> -1]

\* lines 123-129: the label, from a probability in units of 1e-5
risk_level_of(failure_prob) ==
    IF failure_prob >= 70000 THEN "high"
    ELSE IF failure_prob >= 40000 THEN "medium"
    ELSE "low"

\* lines 120-138: the dictionary predict returns for the probability
\* failure_prob that predict_proba gave
PredictionResult(failure_prob) ==
    [failure_probability |-> Round4(failure_prob),
     confidence |-> Round4(Abs(failure_prob - 50000) * 2),
     risk_level |-> risk_level_of(failure_prob),
     prediction |-> IF failure_prob >= 50000 THEN 1 ELSE 0]

\* predict(features) on a predictor whose fields are (trained, cm); the
\* outcome is "ok" with the returned dictionary, or the exception raised.
predict(trained, cm, features) ==
    IF ~trained
    THEN [outcome |-> "ValueError", value |-> NoValue]
    ELSE IF cm.state = "none"
    THEN [outcome |-> "AttributeError", value |-> NoValue]
    ELSE IF cm.state = "unfitted"
    THEN [outcome |-> "NotFittedError", value |-> NoValue]
    ELSE [outcome |-> "ok", value |-> PredictionResult(predict_proba(cm, features))]

----------------------------------------------------------------------------
(* CounterfactualEngine (counterfactual_engine.py)                         *)

\* self.interventions, lines 23-52; deltas in units of 1/100.  shows_delta:
\* the description template has a {delta} placeholder.
interventions ==
    << [name |-> "Improve Attendance", shows_delta |-> TRUE,
        feature_indices |-> <<0, 1>>, delta_range |-> <<5, 10, 15, 20>>,
        effort_cost |-> 2],
       [name |-> "Boost Internal Marks", shows_delta |-> TRUE,
        feature_indices |-> <<8, 9>>, delta_range |-> <<10, 20, 30, 40>>,
        effort_cost |-> 3],
       [name |-> "Stabilize Performance", shows_delta |-> FALSE,
        feature_indices |-> <<7, 13>>, delta_range |-> <<-10, -20, -30>>,
        effort_cost |-> 2],
       [name |-> "Increase Engagement", shows_delta |-> FALSE,
        feature_indices |-> <<20>>, delta_range |-> <<10, 20, 30>>,
        effort_cost |-> 2] >>

\* Effectiveness = risk_reduction / effort_cost is held exactly, in units of
\* 1e-5 / EffDen; every effort cost of the catalog divides EffDen.
EffDen == 6

RECURSIVE ApplyDelta_stopping(_, _, _)
ApplyDelta_stopping(features, indices, delta) ==
    IF indices = <<>> \/ Head(indices) >= Len(features) THEN features
    ELSE ApplyDelta_stopping([features EXCEPT ![Head(indices) + 1] = Clip01(@ + delta)],
                             Tail(indices), delta)

\* lines 100-104 and 194-197: add delta to every listed slot inside the
\* vector and clip it
RECURSIVE ApplyDelta(_, _, _)
ApplyDelta(features, indices, delta) ==
    IF indices = <<>> THEN features
    ELSE LET idx == Head(indices)
             touched == IF idx < Len(features)
                        THEN [features EXCEPT ![idx + 1] = Clip01(@ + delta)]
                        ELSE features
         IN  ApplyDelta(touched, Tail(indices), delta)

\* _format_delta, lines 138-147, as the number shown in the description
_format_delta(delta, intervention) ==
    IF ~intervention.shows_delta THEN 0
    ELSE IF intervention.name = "Improve Attendance" THEN Abs(delta)
    ELSE (Abs(delta) * 20) \div 100

NoBest == [found |-> FALSE]

improves_on_or_ties(effectiveness, best_effectiveness) ==
    effectiveness >= best_effectiveness

\* line 120: the magnitude beats the best one so far
improves_on(effectiveness, best_effectiveness) ==
    effectiveness > best_effectiveness

\* lines 108-134: what one magnitude delta does to the loop's variables
\* acc = [raised, best_result, best_effectiveness], given the prediction
\* for the modified features
TryDelta(intervention, current_risk, delta, prediction, acc) ==
    LET new_risk == prediction.value.failure_probability
        risk_reduction == current_risk - new_risk
        effectiveness == (risk_reduction * EffDen) \div intervention.effort_cost
        result == [found |-> TRUE,
                   action |-> intervention.name,
                   description |-> _format_delta(delta, intervention),
                   current_risk |-> Round4(current_risk),
                   predicted_risk |-> Round4(new_risk),
                   risk_reduction |-> Round4(risk_reduction),
                   risk_reduction_percent |-> RoundDiv(risk_reduction, 100),
                   effort_level |-> intervention.effort_cost,
                   effectiveness_score |-> 10 * RoundDiv(effectiveness, 10 * EffDen),
                   confidence |-> prediction.value.confidence]
    IN  IF prediction.outcome # "ok"
        THEN [acc EXCEPT !.raised = prediction.outcome]
        ELSE IF risk_reduction <= 0 THEN acc
        ELSE IF improves_on(effectiveness, acc.best_effectiveness)
        THEN [acc EXCEPT !.best_result = result,
                         !.best_effectiveness = effectiveness]
        ELSE acc

\* The loop of _simulate_intervention (lines 95-134) from the k-th magnitude
\* on: the features are modified (lines 97-104) and predicted (line 107).
RECURSIVE SimulateFrom(_, _, _, _, _, _, _)
SimulateFrom(trained, cm, current_features, intervention, current_risk, k, acc) ==
    IF k > Len(intervention.delta_range) \/ acc.raised # "none" THEN acc
    ELSE SimulateFrom(trained, cm, current_features, intervention, current_risk,
                      k + 1,
                      TryDelta(intervention, current_risk,
                               intervention.delta_range[k],
                               predict(trained, cm,
                                       ApplyDelta(current_features,
                                                  intervention.feature_indices,
                                                  intervention.delta_range[k])),
                               acc))

\* _simulate_intervention, lines 87-136
_simulate_intervention(trained, cm, current_features, intervention, current_risk) ==
    SimulateFrom(trained, cm, current_features, intervention, current_risk, 1,
                 [raised |-> "none", best_result |-> NoBest,
                  best_effectiveness |-> -1 * EffDen * ProbScale])

SortDesc_unsorted(results) == results

\* list.sort(key=effectiveness_score, reverse=True): stable, descending
RECURSIVE InsertDesc(_, _)
InsertDesc(sorted, x) ==
    IF sorted = <<>> THEN <<x>>
    ELSE IF Head(sorted).effectiveness_score >= x.effectiveness_score
    THEN <<Head(sorted)>> \o InsertDesc(Tail(sorted), x)
    ELSE <<x>> \o sorted

RECURSIVE SortDesc(_)
SortDesc(results) ==
    IF results = <<>> THEN <<>>
    ELSE InsertDesc(SortDesc(SubSeq(results, 1, Len(results) - 1)),
                    results[Len(results)])

\* lines 79-80: the best scenario of one intervention joins the results
\* acc = [raised, results] when there is one
AppendBest(acc, best) ==
    IF best.raised # "none" THEN [acc EXCEPT !.raised = best.raised]
    ELSE IF best.best_result.found
    THEN [acc EXCEPT !.results = Append(@, best.best_result)]
    ELSE acc

\* the loop of lines 72-80 over the catalog entries from the k-th on
RECURSIVE CollectFrom(_, _, _, _, _, _)
CollectFrom(trained, cm, current_features, current_risk, k, acc) ==
    IF k > Len(interventions) \/ acc.raised # "none" THEN acc
    ELSE CollectFrom(trained, cm, current_features, current_risk, k + 1,
                     AppendBest(acc,
                                _simulate_intervention(trained, cm, current_features,
                                                       interventions[k],
                                                       current_risk)))

\* lines 83-85: the results are ranked and the first three returned
TopThree(got) ==
    IF got.raised # "none"
    THEN [outcome |-> got.raised, value |-> <<>>]
    ELSE [outcome |-> "ok", value |-> FirstK(SortDesc(got.results), 3)]

\* simulate_interventions, lines 54-85: [outcome, value]
simulate_interventions(trained, cm, student_data, current_risk) ==
    TopThree(CollectFrom(trained, cm, FeatureOf[student_data], current_risk, 1,
                         [raised |-> "none", results |-> <<>>]))

\* the first entry whose label, not its probability, is "low"
FirstReaching_by_label(ranked, target_risk) ==
    IF \E i \in 1..Len(ranked) : risk_level_of(ranked[i].predicted_risk) = "low"
    THEN CHOOSE i \in 1..Len(ranked) :
            /\ risk_level_of(ranked[i].predicted_risk) = "low"
            /\ \A j \in 1..(i - 1) : risk_level_of(ranked[j].predicted_risk) # "low"
    ELSE 0

\* the first entry of the ranked list that reaches the target (lines 233-234),
\* 0 when there is none
FirstReaching(ranked, target_risk) ==
    IF \E i \in 1..Len(ranked) : ranked[i].predicted_risk <= target_risk
    THEN CHOOSE i \in 1..Len(ranked) :
            /\ ranked[i].predicted_risk <= target_risk
            /\ \A j \in 1..(i - 1) : ranked[j].predicted_risk > target_risk
    ELSE 0

already_safe_strict(current_risk, target_risk) == current_risk < target_risk

\* line 222: the student is already at or below the target
already_safe(current_risk, target_risk) == current_risk <= target_risk

best_single_last(ranked) == ranked[Len(ranked)]

\* line 245: the best-ranked entry of a non-empty ranked list
best_single(ranked) == ranked[1]

\* lines 233-258: the answer once simulate_interventions has returned
PathFrom(simulated, current_risk, target_risk) ==
    LET ranked == simulated.value
        hit == FirstReaching(ranked, target_risk)
    IN  IF simulated.outcome # "ok"
        THEN [outcome |-> simulated.outcome, value |-> <<>>,
              calls |-> <<"extract_features", "predict", "simulate_interventions">>]
        ELSE IF hit # 0
        THEN [outcome |-> "ok",
              value |-> [status |-> "solution_found",
                         path |-> <<ranked[hit]>>,
                         final_risk |-> ranked[hit].predicted_risk,
                         total_effort |-> ranked[hit].effort_level],
              calls |-> <<"extract_features", "predict", "simulate_interventions">>]
        ELSE IF ranked # <<>>
        THEN [outcome |-> "ok",
              value |-> [status |-> "partial_solution",
                         path |-> <<best_single(ranked)>>,
                         final_risk |-> best_single(ranked).predicted_risk,
                         total_effort |-> best_single(ranked).effort_level,
                         note |-> "Multiple interventions may be needed to reach target safety level"],
              calls |-> <<"extract_features", "predict", "simulate_interventions">>]
        ELSE [outcome |-> "ok",
              value |-> [status |-> "no_solution",
                         message |-> "Unable to find viable intervention path",
                         current_risk |-> current_risk],
              calls |-> <<"extract_features", "predict", "simulate_interventions">>]

\* lines 220-258: the answer once predict has returned current_prediction
PathAfterPredict(trained, cm, student_data, target_risk, current_prediction) ==
    LET current_risk == current_prediction.value.failure_probability
    IN  IF current_prediction.outcome # "ok"
        THEN [outcome |-> current_prediction.outcome, value |-> <<>>,
              calls |-> <<"extract_features", "predict">>]
        ELSE IF already_safe(current_risk, target_risk)
        THEN [outcome |-> "ok",
              value |-> [status |-> "safe",
                         message |-> "Student is already below target risk threshold",
                         current_risk |-> current_risk,
                         target_risk |-> target_risk],
              calls |-> <<"extract_features", "predict">>]
        ELSE PathFrom(simulate_interventions(trained, cm, student_data, current_risk),
                      current_risk, target_risk)

\* find_minimal_safe_path, lines 212-258: [outcome, value, calls], calls
\* being the methods the handler invoked, in order
find_minimal_safe_path(trained, cm, student_data, target_risk) ==
    PathAfterPredict(trained, cm, student_data, target_risk,
                     predict(trained, cm, FeatureOf[student_data]))

moderate_delta_first(intervention) == intervention.delta_range[1]

\* line 192: the second entry of the delta range, or its only entry
moderate_delta(intervention) ==
    IF Len(intervention.delta_range) > 1 THEN intervention.delta_range[2]
    ELSE intervention.delta_range[1]

\* line 187: the positions of the catalog entries with the given name (the
\* first is the one next() yields; none: the name is skipped)
NamedEntries(intervention_name) ==
    SelectSeq([k \in 1..Len(interventions) |-> k],
              LAMBDA k : interventions[k].name = intervention_name)

\* the loop of lines 186-199 from the k-th name on:
\* acc = [modified_features, total_effort]
RECURSIVE CombineFrom(_, _, _)
CombineFrom(names, k, acc) ==
    IF k > Len(names) THEN acc
    ELSE IF NamedEntries(names[k]) = <<>> THEN CombineFrom(names, k + 1, acc)
    ELSE CombineFrom(names, k + 1,
             [modified_features |->
                  ApplyDelta(acc.modified_features,
                             interventions[NamedEntries(names[k])[1]].feature_indices,
                             moderate_delta(interventions[NamedEntries(names[k])[1]])),
              total_effort |->
                  acc.total_effort
                  + interventions[NamedEntries(names[k])[1]].effort_cost])

\* lines 202-210 once the loop has ended, given the two predictions
CombinedResult(current_prediction, new_prediction, total_effort, names) ==
    IF current_prediction.outcome # "ok"
    THEN [outcome |-> current_prediction.outcome, value |-> <<>>]
    ELSE IF new_prediction.outcome # "ok"
    THEN [outcome |-> new_prediction.outcome, value |-> <<>>]
    ELSE [outcome |-> "ok",
          value |-> [original_risk |-> current_prediction.value.failure_probability,
                     combined_risk |-> new_prediction.value.failure_probability,
                     total_risk_reduction |->
                         current_prediction.value.failure_probability
                         - new_prediction.value.failure_probability,
                     total_effort |-> total_effort,
                     interventions_applied |-> names]]

\* lines 183-210 with the loop's result
CombinedAfterLoop(trained, cm, current_features, names, done) ==
    CombinedResult(predict(trained, cm, current_features),
                   predict(trained, cm, done.modified_features),
                   done.total_effort, names)

\* simulate_combined_interventions, lines 173-210: [outcome, value]
simulate_combined_interventions(trained, cm, student_data, names) ==
    CombinedAfterLoop(trained, cm, FeatureOf[student_data], names,
                      CombineFrom(names, 1,
                                  [modified_features |-> FeatureOf[student_data],
                                   total_effort |-> 0]))

\* The ensembles that fitting can produce in the life-cycle specification.
TrainableClassifiers ==
    { [bias |-> 69996, stumps |-> {}],
      [bias |-> 39996, stumps |-> {[slot |-> 0, thr |-> 70, gain |-> -20000]}],
      [bias |-> 50000, stumps |-> {[slot |-> 20, thr |-> 40, gain |-> 50000],
                                   [slot |-> 9, thr |-> 50, gain |-> -50000]}] }

\* A training set (X, y): the ensemble a complete fit on it yields, and the
\* line of train() at which fitting it raises, if any: "split" (line 43,
\* train_test_split cannot stratify), "fit" (line 58), "calibrate"
\* (line 78, fewer members of a class than folds), "none".
TrainingSets ==
    [clf : TrainableClassifiers, raises : {"split", "fit", "calibrate", "none"}]

NoStore == [exists |-> FALSE, model |-> NoEstimator, calibrated_model |-> NoEstimator]

\* the record of a call: its arguments, its outcome ("ok" or the exception
\* raised), the value returned, and the methods it invoked on the way
CallVia(op, arg, outcome, value, calls) ==
    [op |-> op, arg |-> arg, outcome |-> outcome, value |-> value, calls |-> calls]
Call(op, arg, outcome, value) == CallVia(op, arg, outcome, value, <<>>)

\* no call is under way: the caller has taken the last result
Idle == Call("idle", <<>>, "ok", NoValue)

\* the caller takes the result of the call
Return ==
    /\ ret.op # "idle"
    /\ pc = "idle"
    /\ reader.pc = "idle"
    /\ ret' = Idle
    /\ queue' = <<>>
    /\ visited' = {}
    /\ propagated_risks' = [c \in {} |-> 0]
    /\ expanded' = <<>>
    /\ UNCHANGED <<predictor_vars, graph, added, pc, thread_vars>>

\* train(X, y), lines 31-91
Train(d) ==
    /\ ret.op = "idle"
    /\ model' = CASE d.raises = "split" -> model
                  [] d.raises = "fit" -> Unfitted
                  [] OTHER -> Fitted(d.clf)
    /\ calibrated_model' = CASE d.raises \in {"split", "fit"} -> calibrated_model
                             [] d.raises = "calibrate" -> Unfitted
                             [] OTHER -> Fitted(d.clf)
    /\ is_trained' = IF d.raises = "none" THEN TRUE ELSE is_trained
    /\ ever_ready' = IF d.raises = "none" THEN TRUE ELSE ever_ready
    /\ ret' = Call("train", d,
                   IF d.raises = "none" THEN "ok" ELSE "ValueError", NoValue)
    /\ UNCHANGED <<store, graph_vars, thread_vars>>

\* predict(features), lines 93-138
Predict(s) ==
    LET r == predict(is_trained, calibrated_model, FeatureOf[s])
    IN  /\ ret.op = "idle"
        /\ ret' = Call("predict", s, r.outcome, r.value)
        /\ UNCHANGED <<predictor_vars, graph_vars, thread_vars>>

\* save_model(), lines 150-159
SaveModel ==
    /\ ret.op = "idle"
    /\ IF ~is_trained
       THEN /\ ret' = Call("save_model", <<>>, "ValueError", NoValue)
            /\ UNCHANGED store
       ELSE /\ store' = [exists |-> TRUE, model |-> model,
                         calibrated_model |-> calibrated_model]
            /\ ret' = Call("save_model", <<>>, "ok", NoValue)
    /\ UNCHANGED <<model, calibrated_model, is_trained, ever_ready, graph_vars,
                   thread_vars>>

LoadModel_resetting ==
    /\ ret.op = "idle"
    /\ model' = (IF store.exists THEN store.model ELSE NoEstimator)
    /\ calibrated_model' = (IF store.exists THEN store.calibrated_model
                                            ELSE NoEstimator)
    /\ is_trained' = store.exists
    /\ ever_ready' = (ever_ready \/ store.exists)
    /\ ret' = Call("load_model", <<>>,
                   IF store.exists THEN "ok" ELSE "FileNotFoundError", NoValue)
    /\ UNCHANGED <<store, graph_vars, thread_vars>>

\* load_model(), lines 161-169
LoadModel ==
    /\ ret.op = "idle"
    /\ IF ~store.exists
       THEN /\ ret' = Call("load_model", <<>>, "FileNotFoundError", NoValue)
            /\ UNCHANGED predictor_vars
       ELSE /\ model' = store.model
            /\ calibrated_model' = store.calibrated_model
            /\ is_trained' = TRUE
            /\ ever_ready' = TRUE
            /\ ret' = Call("load_model", <<>>, "ok", NoValue)
            /\ UNCHANGED store
    /\ UNCHANGED <<graph_vars, thread_vars>>

----------------------------------------------------------------------------
(* KnowledgeGraph (knowledge_graph.py).  The networkx DiGraph is the       *)
(* sequence of its nodes and the sequence of its edges, both in insertion  *)
(* order (the order networkx iterates them in); strengths in units of      *)
(* 1/100, risks in units of 1e-5.                                          *)

SeqToSet(q) == {q[i] : i \in 1..Len(q)}

HasNode(g, n) == n \in SeqToSet(g.nodes)
HasEdge(g, u, v) == \E i \in 1..Len(g.edges) : g.edges[i].u = u /\ g.edges[i].v = v

\* DiGraph.add_edge(u, v, strength=s): both nodes are created when missing,
\* an existing edge keeps its place and takes the new strength
add_edge(g, u, v, s) ==
    LET n1 == IF HasNode(g, u) THEN g.nodes ELSE Append(g.nodes, u)
        n2 == IF v \in SeqToSet(n1) THEN n1 ELSE Append(n1, v)
        e2 == IF HasEdge(g, u, v)
              THEN [i \in 1..Len(g.edges) |->
                       IF g.edges[i].u = u /\ g.edges[i].v = v
                       THEN [g.edges[i] EXCEPT !.strength = s]
                       ELSE g.edges[i]]
              ELSE Append(g.edges, [u |-> u, v |-> v, strength |-> s])
    IN  [nodes |-> n2, edges |-> e2]

\* the list of lines 28-56
dependencies ==
    << <<"Calculus I", "Calculus II", 90>>,
       <<"Calculus II", "Calculus III", 85>>,
       <<"Calculus I", "Linear Algebra", 70>>,
       <<"Linear Algebra", "Differential Equations", 80>>,
       <<"Programming Fundamentals", "Data Structures", 95>>,
       <<"Data Structures", "Algorithms", 90>>,
       <<"Programming Fundamentals", "Object Oriented Programming", 85>>,
       <<"Data Structures", "Database Systems", 70>>,
       <<"Physics I", "Physics II", 85>>,
       <<"Calculus I", "Physics I", 75>>,
       <<"Physics II", "Quantum Mechanics", 80>>,
       <<"Calculus I", "Probability and Statistics", 70>>,
       <<"Programming Fundamentals", "Machine Learning", 80>>,
       <<"Linear Algebra", "Machine Learning", 85>>,
       <<"Algorithms", "Advanced Algorithms", 90>>,
       <<"Chemistry", "Organic Chemistry", 85>>,
       <<"Physics I", "Thermodynamics", 75>>,
       <<"Calculus II", "Engineering Mathematics", 80>> >>

\* _initialize_default_graph, lines 22-66: add_edge for every entry of the
\* list, in order.  No pair occurs twice in the list, so the edges are its
\* entries and the nodes its course names in order of first appearance (the
\* node checks of lines 63-66 never fire: add_edge has created both nodes).
_initialize_default_graph ==
    LET names == [j \in 1..(2 * Len(dependencies)) |->
                     dependencies[(j + 1) \div 2][IF j % 2 = 1 THEN 1 ELSE 2]]
        firsts == SelectSeq([j \in 1..Len(names) |-> j],
                            LAMBDA j : \A i \in 1..(j - 1) : names[i] # names[j])
    IN  [nodes |-> [k \in 1..Len(firsts) |-> names[firsts[k]]],
         edges |-> [i \in 1..Len(dependencies) |->
                      [u |-> dependencies[i][1], v |-> dependencies[i][2],
                       strength |-> dependencies[i][3]]]]

\* graph.successors(u) with the strength of each edge, in adjacency order
successors(g, u) == SelectSeq(g.edges, LAMBDA e : e.u = u)

decay_missing(current_risk, edge_strength) == (current_risk * edge_strength) \div 100

\* line 161: current_risk * edge_strength * 0.8
propagated_value(current_risk, edge_strength) ==
    (current_risk * edge_strength * 8) \div 1000

significant_always(propagated_risk) == TRUE

\* line 171: the risk is significant, the dependent is expanded in its turn
significant(propagated_risk) == propagated_risk > 20000

\* lines 157-172 for the successors succ[k..] of the course being expanded:
\* acc = [risks, queue]
RECURSIVE PropagateTo(_, _, _, _)
PropagateTo(succ, k, current_risk, acc) ==
    IF k > Len(succ) THEN acc
    ELSE
    LET dependent == succ[k].v
        propagated_risk == propagated_value(current_risk, succ[k].strength)
        risks == IF dependent \in DOMAIN acc.risks
                 THEN [acc.risks EXCEPT
                          ![dependent] = Max2(acc.risks[dependent], propagated_risk)]
                 ELSE [c \in DOMAIN acc.risks \cup {dependent} |->
                          IF c = dependent THEN propagated_risk ELSE acc.risks[c]]
        q == IF significant(propagated_risk)
             THEN Append(acc.queue, <<dependent, propagated_risk>>)
             ELSE acc.queue
    IN  PropagateTo(succ, k + 1, current_risk, [risks |-> risks, queue |-> q])

revisits(course, seen) == FALSE

\* line 152: the course popped from the queue was expanded before
already_visited(course, seen) == course \in seen

keep_source(risks, failed_course) == risks

\* line 175: propagated_risks.pop(failed_course, None)
without_source(risks, failed_course) ==
    [c \in DOMAIN risks \ {failed_course} |-> risks[c]]

NoRisks == [c \in {} |-> 0]

----------------------------------------------------------------------------
(* KnowledgeGraph queries.  Each gives [outcome, value]: "ok" with the     *)
(* value returned, or the exception raised.                                *)

\* graph.predecessors(v) with the strength of each edge, in adjacency order
predecessors(g, v) == SelectSeq(g.edges, LAMBDA e : e.v = v)

\* sorted(items, key=lambda x: x[field], reverse=True) for the field
\* 'dependency_strength' or 'criticality': descending, equal keys keep
\* their order
SortedDesc(items, field) ==
    LET n == Len(items)
        before(i) == Cardinality({j \in 1..n :
                         \/ items[j][field] > items[i][field]
                         \/ (items[j][field] = items[i][field] /\ j < i)})
    IN  [k \in 1..n |-> items[CHOOSE i \in 1..n : before(i) = k - 1]]

get_prerequisites_unguarded(g, course) ==
    [outcome |-> IF HasNode(g, course) THEN "ok" ELSE "NetworkXError",
     value |-> SortedDesc([i \in 1..Len(predecessors(g, course)) |->
                              [subject |-> predecessors(g, course)[i].u,
                               dependency_strength |->
                                   predecessors(g, course)[i].strength]],
                          "dependency_strength")]

\* get_prerequisites, lines 72-87
get_prerequisites(g, course) ==
    IF ~HasNode(g, course) THEN [outcome |-> "ok", value |-> <<>>]
    ELSE [outcome |-> "ok",
          value |-> SortedDesc([i \in 1..Len(predecessors(g, course)) |->
                                   [subject |-> predecessors(g, course)[i].u,
                                    dependency_strength |->
                                        predecessors(g, course)[i].strength]],
                               "dependency_strength")]

\* get_dependent_courses, lines 89-104
get_dependent_courses(g, course) ==
    IF ~HasNode(g, course) THEN [outcome |-> "ok", value |-> <<>>]
    ELSE [outcome |-> "ok",
          value |-> SortedDesc([i \in 1..Len(successors(g, course)) |->
                                   [subject |-> successors(g, course)[i].v,
                                    dependency_strength |->
                                        successors(g, course)[i].strength]],
                               "dependency_strength")]

\* the courses one edge away from the frontier that were not seen before
Fresh(g, frontier, seen) ==
    {e.v : e \in {x \in SeqToSet(g.edges) : x.u \in frontier}} \ seen

\* breadth-first search: frontier holds the courses d edges away from the
\* start; the distance of v, or -1 when v is never found (NetworkXNoPath)
RECURSIVE Distance(_, _, _, _, _)
Distance(g, frontier, seen, v, d) ==
    IF v \in frontier THEN d
    ELSE IF frontier = {} THEN -1
    ELSE Distance(g, Fresh(g, frontier, seen), seen \cup Fresh(g, frontier, seen),
                  v, d + 1)

\* nx.shortest_path_length(graph, u, v) and nx.has_path(graph, u, v)
shortest_path_length(g, u, v) == Distance(g, {u}, {u}, v, 0)
has_path(g, u, v) == shortest_path_length(g, u, v) >= 0

SetMax(S) == CHOOSE x \in S : \A y \in S : y <= x

\* calculate_dependency_depth, lines 106-127
calculate_dependency_depth(g, course) ==
    IF ~HasNode(g, course) THEN [outcome |-> "ok", value |-> 0]
    ELSE LET paths == {shortest_path_length(g, node, course) :
                          node \in {n \in SeqToSet(g.nodes) :
                                       n # course /\ has_path(g, n, course)}}
         IN  [outcome |-> "ok",
              value |-> IF paths = {} THEN 0 ELSE SetMax(paths)]

direct_prerequisites_only(g, v) == {e.u : e \in {x \in SeqToSet(g.edges) : x.v = v}} \ {v}

\* nx.ancestors(graph, v): the courses with a path to v, v itself left out
ancestors(g, v) == {n \in SeqToSet(g.nodes) : n # v /\ has_path(g, n, v)}

Reverse(q) == [i \in 1..Len(q) |-> q[Len(q) + 1 - i]]

\* the edges the loop of topological_generations walks for one generation:
\* the out-edges of its nodes, node after node
RECURSIVE OutEdgesOf(_, _)
OutEdgesOf(edges, generation) ==
    IF generation = <<>> THEN <<>>
    ELSE SelectSeq(edges, LAMBDA e : e.u = Head(generation))
         \o OutEdgesOf(edges, Tail(generation))

\* indegree_map after the walk: one less for every edge walked
Decremented(indegree_map, walked) ==
    [n \in DOMAIN indegree_map |->
        indegree_map[n] - Cardinality({i \in 1..Len(walked) : walked[i].v = n})]

\* zero_indegree after the walk: the children whose count reached 0, in the
\* order in which they reached it
NextGeneration(indegree_map, walked) ==
    LET left == Decremented(indegree_map, walked)
        hits == SelectSeq([i \in 1..Len(walked) |-> i],
                          LAMBDA i : /\ left[walked[i].v] = 0
                                     /\ \A j \in (i + 1)..Len(walked) :
                                           walked[j].v # walked[i].v)
    IN  [k \in 1..Len(hits) |-> walked[hits[k]].v]

\* nx.topological_sort: the generations of Kahn's algorithm one after the
\* other; unfeasible when a course is left with a positive count (a cycle)
RECURSIVE Generations(_, _, _, _)
Generations(edges, indegree_map, generation, out) ==
    IF generation = <<>>
    THEN [path |-> out,
          unfeasible |-> \E n \in DOMAIN indegree_map : indegree_map[n] > 0]
    ELSE Generations(edges,
                     Decremented(indegree_map, OutEdgesOf(edges, generation)),
                     NextGeneration(indegree_map, OutEdgesOf(edges, generation)),
                     out \o generation)

topological_sort(nodes, edges) ==
    Generations(edges,
                [n \in SeqToSet(nodes) |->
                    Cardinality({i \in 1..Len(edges) : edges[i].v = n})],
                SelectSeq(nodes, LAMBDA n : \A i \in 1..Len(edges) : edges[i].v # n),
                <<>>)

\* lines 238-241: the sorted path, or [target_course] when the sort raised
PathOrTarget(sorted, target_course) ==
    [outcome |-> "ok",
     value |-> IF sorted.unfeasible THEN <<target_course>> ELSE sorted.path]

\* get_learning_path, lines 225-241.  The subgraph view iterates its nodes
\* and neighbours either in the graph's insertion order or in the order of a
\* Python set of strings, which differs from run to run: reversed tells
\* whether the order is the insertion order or, standing for the others, its
\* reverse.
get_learning_path(g, target_course, reversed) ==
    IF ~HasNode(g, target_course)
    THEN [outcome |-> "ok", value |-> <<target_course>>]
    ELSE PathOrTarget(
             topological_sort(
                 SelectSeq(IF reversed THEN Reverse(g.nodes) ELSE g.nodes,
                           LAMBDA n : n \in ancestors(g, target_course)
                                                \cup {target_course}),
                 SelectSeq(IF reversed THEN Reverse(g.edges) ELSE g.edges,
                           LAMBDA e : {e.u, e.v} \subseteq
                                          ancestors(g, target_course)
                                              \cup {target_course})),
             target_course)

\* lines 187-199: for every given course, in order, its prerequisites as
\* get_prerequisites lists them
RECURSIVE PrereqPairs(_, _)
PrereqPairs(g, current_courses) ==
    IF current_courses = <<>> THEN <<>>
    ELSE [i \in 1..Len(get_prerequisites(g, Head(current_courses)).value) |->
             [prereq |-> get_prerequisites(g, Head(current_courses)).value[i].subject,
              course |-> Head(current_courses)]]
         \o PrereqPairs(g, Tail(current_courses))

\* self.graph[u][v]['strength']
EdgeStrength(g, u, v) ==
    (CHOOSE e \in SeqToSet(g.edges) : e.u = u /\ e.v = v).strength

\* lines 203-220: the entry of one prerequisite; avg_strength and criticality
\* in units of 1/1000 (round(x, 3))
CriticalInfo(g, prereq_name, dependent_courses) ==
    LET num_dependents == Len(dependent_courses)
        linked == SelectSeq(dependent_courses, LAMBDA c : HasEdge(g, prereq_name, c))
        total == SeqSum([i \in 1..Len(linked) |-> EdgeStrength(g, prereq_name, linked[i])])
    IN  [subject |-> prereq_name,
         dependent_courses |-> dependent_courses,
         avg_strength |-> IF linked = <<>> THEN 0
                          ELSE RoundDiv(10 * total, Len(linked)),
         criticality |-> IF linked = <<>> THEN 0
                         ELSE RoundDiv(num_dependents * 10 * total, Len(linked))]

\* lines 201-223 over the (prerequisite, course) pairs collected
RankCritical(g, pairs) ==
    LET firsts == SelectSeq([i \in 1..Len(pairs) |-> i],
                            LAMBDA i : \A j \in 1..(i - 1) :
                                          pairs[j].prereq # pairs[i].prereq)
        courses_of(p) == LET mine == SelectSeq(pairs, LAMBDA x : x.prereq = p)
                         IN  [i \in 1..Len(mine) |-> mine[i].course]
    IN  SortedDesc([k \in 1..Len(firsts) |->
                       CriticalInfo(g, pairs[firsts[k]].prereq,
                                    courses_of(pairs[firsts[k]].prereq))],
                   "criticality")

\* get_critical_prerequisites, lines 179-223
get_critical_prerequisites(g, current_courses) ==
    [outcome |-> "ok", value |-> RankCritical(g, PrereqPairs(g, current_courses))]

export_graph_initial(g) ==
    [outcome |-> "ok",
     value |-> [nodes |-> [i \in 1..Len(_initialize_default_graph.nodes) |->
                              [id |-> _initialize_default_graph.nodes[i],
                               difficulty |-> 75]],
                edges |-> [i \in 1..Len(_initialize_default_graph.edges) |->
                              [source |-> _initialize_default_graph.edges[i].u,
                               target |-> _initialize_default_graph.edges[i].v,
                               strength |->
                                   _initialize_default_graph.edges[i].strength]]]]

\* export_graph, lines 243-261: the nodes in insertion order, no node carries
\* a 'difficulty' attribute so each gets the default 0.75; the edges as
\* graph.edges yields them, node after node
export_graph(g) ==
    [outcome |-> "ok",
     value |-> [nodes |-> [i \in 1..Len(g.nodes) |->
                              [id |-> g.nodes[i], difficulty |-> 75]],
                edges |-> [i \in 1..Len(OutEdgesOf(g.edges, g.nodes)) |->
                              [source |-> OutEdgesOf(g.edges, g.nodes)[i].u,
                               target |-> OutEdgesOf(g.edges, g.nodes)[i].v,
                               strength |->
                                   OutEdgesOf(g.edges, g.nodes)[i].strength]]]]

----------------------------------------------------------------------------
(* KnowledgeGraph operations as steps                                      *)

\* add_dependency, lines 68-70
AddDependency(prerequisite, course, strength) ==
    /\ ret.op = "idle"
    /\ pc = "idle"
    /\ graph' = add_edge(graph, prerequisite, course, strength)
    /\ added' = added + 1
    /\ ret' = Call("add_dependency", <<prerequisite, course, strength>>, "ok", NoValue)
    /\ UNCHANGED <<predictor_vars, propagate_vars, thread_vars>>

\* propagate_risk, lines 140-147: an unknown course returns {} at once,
\* otherwise the queue is seeded and the loop entered
PropagateStart(failed_course, failure_risk) ==
    /\ ret.op = "idle"
    /\ pc = "idle"
    /\ IF ~HasNode(graph, failed_course)
       THEN /\ ret' = Call("propagate_risk",
                           [failed_course |-> failed_course,
                            failure_risk |-> failure_risk], "ok", NoRisks)
            /\ UNCHANGED propagate_vars
       ELSE /\ ret' = Call("propagate_risk",
                           [failed_course |-> failed_course,
                            failure_risk |-> failure_risk], "running", NoRisks)
            /\ pc' = "loop"
            /\ queue' = << <<failed_course, failure_risk>> >>
            /\ visited' = {}
            /\ propagated_risks' = NoRisks
            /\ expanded' = <<>>
    /\ UNCHANGED <<predictor_vars, graph, added, thread_vars>>

\* one iteration of the while loop, lines 149-172
PropagateStep ==
    /\ pc = "loop"
    /\ queue # <<>>
    /\ LET current_course == Head(queue)[1]
           current_risk == Head(queue)[2]
           rest == Tail(queue)
       IN  IF already_visited(current_course, visited)
           THEN /\ queue' = rest
                /\ UNCHANGED <<visited, propagated_risks, expanded>>
           ELSE LET done == PropagateTo(successors(graph, current_course), 1,
                                        current_risk,
                                        [risks |-> propagated_risks, queue |-> rest])
                IN  /\ visited' = visited \cup {current_course}
                    /\ expanded' = Append(expanded, current_course)
                    /\ propagated_risks' = done.risks
                    /\ queue' = done.queue
    /\ UNCHANGED <<predictor_vars, graph, added, pc, thread_vars, ret>>

\* the loop is left: lines 174-177
PropagateReturn ==
    /\ pc = "loop"
    /\ queue = <<>>
    /\ pc' = "idle"
    /\ propagated_risks' = without_source(propagated_risks, ret.arg.failed_course)
    /\ ret' = [ret EXCEPT !.outcome = "ok",
                          !.value = without_source(propagated_risks,
                                                   ret.arg.failed_course)]
    /\ UNCHANGED <<predictor_vars, graph, added, queue, visited, expanded,
                   thread_vars>>

\* no thread is inside train or load_model
NoWriter == [op |-> "none", pc |-> "idle", arg |-> <<>>, outcome |-> "none"]

\* no thread is inside predict, and none has been
NoReader == [pc |-> "idle", arg |-> <<>>, runs |-> <<>>]

\* __init__, lines 21-29: the fields after construction over a given store
Constructed(st) ==
    /\ store = st
    /\ model = (IF st.exists THEN st.model ELSE NoEstimator)
    /\ calibrated_model = (IF st.exists THEN st.calibrated_model ELSE NoEstimator)
    /\ is_trained = st.exists
    /\ ever_ready = st.exists
    /\ writer = NoWriter
    /\ reader = NoReader
    /\ ret = Idle

\* KnowledgeGraph.__init__, lines 18-20, and no propagate_risk call under way
GraphConstructed ==
    /\ graph = _initialize_default_graph
    /\ added = 0
    /\ pc = "idle"
    /\ queue = <<>>
    /\ visited = {}
    /\ propagated_risks = NoRisks
    /\ expanded = <<>>

Init ==
    \E st \in {NoStore} \cup
              { [exists |-> TRUE, model |-> Fitted(c), calibrated_model |-> Fitted(c)] :
                c \in TrainableClassifiers } :
        Constructed(st) /\ GraphConstructed

Next ==
    \/ \E d \in TrainingSets : Train(d)
    \/ \E s \in Students : Predict(s)
    \/ SaveModel
    \/ LoadModel
    \/ Return

Spec == Init /\ [][Next]_vars

----------------------------------------------------------------------------
(* The engine over a predictor constructed from an existing model store.   *)

\* the stumps of the stored ensembles
StumpOptions ==
    { [slot |-> 0, thr |-> 70, gain |-> -20000],
      [slot |-> 0, thr |-> 10, gain |-> -15000],
      [slot |-> 1, thr |-> -1, gain |-> -6],
      [slot |-> 8, thr |-> 95, gain |-> 5000],
      [slot |-> 9, thr |-> 85, gain |-> -30000],
      [slot |-> 13, thr |-> 150, gain |-> 20000],
      [slot |-> 20, thr |-> 60, gain |-> -20000],
      [slot |-> 20, thr |-> 75, gain |-> -8000] }
Biases == {30004, 55000, 69996}
\* an ensemble under which each of the four interventions lowers the
\* probability and the costliest one lowers it most, yet least per unit of
\* effort
SteepMarksClassifier ==
    [bias |-> 30004,
     stumps |-> { [slot |-> 0, thr |-> 70, gain |-> -20000],
                  [slot |-> 9, thr |-> 85, gain |-> -25000],
                  [slot |-> 13, thr |-> 150, gain |-> 20000],
                  [slot |-> 20, thr |-> 60, gain |-> -20000] }]
StoredClassifiers ==
    [bias : Biases, stumps : SUBSET StumpOptions] \cup {SteepMarksClassifier}

\* the current_risk values a caller passes besides the student's own
\* predicted probability (app.py lines 270-274), and the targets
CallerRisks == {55003, 100000}
Targets == {30000, 25000}

OwnRisk(s) ==
    LET r == predict(is_trained, calibrated_model, FeatureOf[s])
    IN  IF r.outcome = "ok" THEN {r.value.failure_probability} ELSE {}

SimulateInterventions(s, current_risk) ==
    LET r == simulate_interventions(is_trained, calibrated_model, s, current_risk)
    IN  /\ ret.op = "idle"
        /\ ret' = CallVia("simulate_interventions",
                          [student_data |-> s, current_risk |-> current_risk],
                          r.outcome, r.value, <<"extract_features">>)
        /\ UNCHANGED <<predictor_vars, graph_vars, thread_vars>>

FindMinimalSafePath(s, target_risk) ==
    LET r == find_minimal_safe_path(is_trained, calibrated_model, s, target_risk)
    IN  /\ ret.op = "idle"
        /\ ret' = CallVia("find_minimal_safe_path",
                          [student_data |-> s, target_risk |-> target_risk],
                          r.outcome, r.value, r.calls)
        /\ UNCHANGED <<predictor_vars, graph_vars, thread_vars>>

\* the lists of names simulate_combined_interventions is called with: none,
\* one, several, a name twice, names that are not in the catalog
InterventionLists ==
    { <<>>,
      <<"Improve Attendance">>,
      <<"Improve Attendance", "Increase Engagement">>,
      <<"Improve Attendance", "Tutoring", "Improve Attendance">>,
      <<"Boost Internal Marks", "Stabilize Performance", "Improve Attendance",
        "Increase Engagement">>,
      <<"Tutoring", "improve attendance">> }

SimulateCombinedInterventions(s, names) ==
    /\ ret.op = "idle"
    /\ ret' = CallVia("simulate_combined_interventions",
                      [student_data |-> s, interventions |-> names],
                      simulate_combined_interventions(is_trained, calibrated_model,
                                                      s, names).outcome,
                      simulate_combined_interventions(is_trained, calibrated_model,
                                                      s, names).value,
                      <<"extract_features", "predict", "predict">>)
    /\ UNCHANGED <<predictor_vars, graph_vars, thread_vars>>

EngineInit ==
    \E st \in {NoStore} \cup
              { [exists |-> TRUE, model |-> Fitted(c), calibrated_model |-> Fitted(c)] :
                c \in StoredClassifiers } :
        Constructed(st) /\ GraphConstructed

EngineNext ==
    \/ \E s \in Students : Predict(s)
    \/ \E s \in Students : \E cr \in CallerRisks \cup OwnRisk(s) :
          SimulateInterventions(s, cr)
    \/ \E s \in Students : \E t \in Targets : FindMinimalSafePath(s, t)
    \/ \E s \in Students : \E names \in InterventionLists :
          SimulateCombinedInterventions(s, names)
    \/ Return

EngineSpec == EngineInit /\ [][EngineNext]_vars

----------------------------------------------------------------------------
(* The knowledge graph on its own: add_dependency calls and propagate_risk *)
(* runs over the default graph.                                            *)

\* the add_dependency calls made: an edge closing a cycle into "Calculus I",
\* a self-loop, a weaker strength for an existing edge, a second path to
\* "Physics I", edges to and from a new course, a strength above 1, a
\* second dependent of "Linear Algebra"
Additions ==
    { <<"Calculus II", "Calculus I", 100>>,
      <<"Calculus I", "Calculus I", 100>>,
      <<"Calculus I", "Physics I", 30>>,
      <<"Calculus II", "Physics I", 100>>,
      <<"Physics I", "Ethics", 20>>,
      <<"Ethics", "Calculus I", 100>>,
      <<"Physics II", "Calculus I", 150>>,
      <<"Linear Algebra", "Physics I", 60>> }
MaxAdded == 2

\* the courses and risks propagate_risk is called with
Sources == {"Calculus I", "Calculus II", "Physics I", "Programming Fundamentals",
            "Ethics", "Astrology"}
SourceRisks == {100000, 45000, 0}

GraphInit == Constructed(NoStore) /\ GraphConstructed

\* The value of a returned query is kept under the name of what it holds:
\* prerequisites, dependents, depth, critical_prereqs, path or exported.

\* get_prerequisites(course), lines 72-87
GetPrerequisites(course) ==
    /\ ret.op = "idle"
    /\ pc = "idle"
    /\ ret' = Call("get_prerequisites", [course |-> course],
                   get_prerequisites(graph, course).outcome,
                   [prerequisites |->
                       get_prerequisites(graph, course).value])
    /\ UNCHANGED <<predictor_vars, graph_vars, thread_vars>>

\* get_dependent_courses(course), lines 89-104
GetDependentCourses(course) ==
    /\ ret.op = "idle"
    /\ pc = "idle"
    /\ ret' = Call("get_dependent_courses", [course |-> course],
                   get_dependent_courses(graph, course).outcome,
                   [dependents |->
                       get_dependent_courses(graph, course).value])
    /\ UNCHANGED <<predictor_vars, graph_vars, thread_vars>>

\* calculate_dependency_depth(course), lines 106-127
CalculateDependencyDepth(course) ==
    /\ ret.op = "idle"
    /\ pc = "idle"
    /\ ret' = Call("calculate_dependency_depth", [course |-> course],
                   calculate_dependency_depth(graph, course).outcome,
                   [depth |->
                       calculate_dependency_depth(graph, course).value])
    /\ UNCHANGED <<predictor_vars, graph_vars, thread_vars>>

\* get_critical_prerequisites(current_courses), lines 179-223
GetCriticalPrerequisites(current_courses) ==
    /\ ret.op = "idle"
    /\ pc = "idle"
    /\ ret' = Call("get_critical_prerequisites",
                   [current_courses |-> current_courses],
                   get_critical_prerequisites(graph, current_courses).outcome,
                   [critical_prereqs |->
                       get_critical_prerequisites(graph, current_courses).value])
    /\ UNCHANGED <<predictor_vars, graph_vars, thread_vars>>

\* get_learning_path(target_course), lines 225-241
GetLearningPath(target_course, reversed) ==
    /\ ret.op = "idle"
    /\ pc = "idle"
    /\ ret' = Call("get_learning_path",
                   [target_course |-> target_course, reversed |-> reversed],
                   get_learning_path(graph, target_course, reversed).outcome,
                   [path |->
                       get_learning_path(graph, target_course, reversed).value])
    /\ UNCHANGED <<predictor_vars, graph_vars, thread_vars>>

\* export_graph(), lines 243-261
ExportGraph ==
    /\ ret.op = "idle"
    /\ pc = "idle"
    /\ ret' = Call("export_graph", <<>>, export_graph(graph).outcome,
                   [exported |-> export_graph(graph).value])
    /\ UNCHANGED <<predictor_vars, graph_vars, thread_vars>>

\* the courses the queries are called with ("Astrology" is never in the
\* graph, "Ethics" only after an add_dependency), and the course lists
QueryCourses ==
    {"Calculus I", "Physics I", "Machine Learning", "Engineering Mathematics",
     "Ethics", "Astrology"}
CourseLists ==
    { <<>>, <<"Astrology">>,
      <<"Differential Equations", "Physics I">>,
      <<"Differential Equations", "Physics I", "Calculus I">>,
      <<"Machine Learning", "Data Structures">> }

GraphNext ==
    \/ \E a \in Additions : added < MaxAdded /\ AddDependency(a[1], a[2], a[3])
    \/ \E c \in Sources : \E r \in SourceRisks : PropagateStart(c, r)
    \/ PropagateStep
    \/ PropagateReturn
    \/ \E c \in QueryCourses : GetPrerequisites(c)
    \/ \E c \in QueryCourses : GetDependentCourses(c)
    \/ \E c \in QueryCourses : CalculateDependencyDepth(c)
    \/ \E cs \in CourseLists : GetCriticalPrerequisites(cs)
    \/ \E c \in QueryCourses : \E reversed \in BOOLEAN : GetLearningPath(c, reversed)
    \/ ExportGraph
    \/ Return

\* the while loop runs to its end once entered
GraphSpec ==
    GraphInit /\ [][GraphNext]_vars
    /\ WF_vars(PropagateStep) /\ WF_vars(PropagateReturn)

----------------------------------------------------------------------------
(* Claims                                                                  *)

\* C1: predict raises the invalid-state error (ValueError) in every state
\* where no train or load_model call has completed, and returns a
\* PredictionResult in every state after one has.
C1_PredictReadiness ==
    ret.op = "predict" =>
        IF ever_ready THEN ret.outcome = "ok" ELSE ret.outcome = "ValueError"

\* the part of C1 the code keeps: never trained or loaded, predict raises
\* ValueError and returns nothing
C1_UnreadyPredictRaises ==
    (ret.op = "predict" /\ ~ever_ready) =>
        (ret.outcome = "ValueError" /\ ret.value = NoValue)

\* C10: with p the failure_probability of a returned PredictionResult,
\* p >= 0.70 gives "high", 0.40 <= p < 0.70 gives "medium", p < 0.40 gives "low".
C10_RiskLevelPartition ==
    (ret.op = "predict" /\ ret.outcome = "ok") =>
        LET p == ret.value.failure_probability
        IN  /\ p >= 70000 => ret.value.risk_level = "high"
            /\ (40000 <= p /\ p < 70000) => ret.value.risk_level = "medium"
            /\ p < 40000 => ret.value.risk_level = "low"

\* the arguments and the result of a completed engine call
Returned(op) == ret.op = op /\ ret.outcome = "ok"

\* the per-intervention best results for the arguments of the simulate call
\* in ret, in catalog order (an entry with found = FALSE: no improving magnitude)
BestOf(k) ==
    _simulate_intervention(is_trained, calibrated_model,
                           FeatureOf[ret.arg.student_data], interventions[k],
                           ret.arg.current_risk).best_result
Bests == {BestOf(k) : k \in {j \in 1..Len(interventions) : BestOf(j).found}}

\* C5: simulate_interventions returns the top-3 prefix of the per-intervention
\* bests by effectiveness_score descending: at most 3 entries, each the best
\* of a different catalog intervention, scores non-increasing, and no omitted
\* best with a higher score than a returned one.
C5_TopThreeRanked ==
    Returned("simulate_interventions") =>
        LET out == ret.value
        IN  /\ Len(out) = Min2(3, Cardinality(Bests))
            /\ \A i \in 1..Len(out) : out[i] \in Bests
            /\ \A i, j \in 1..Len(out) : i # j => out[i].action # out[j].action
            /\ \A i \in 1..(Len(out) - 1) :
                  out[i].effectiveness_score >= out[i + 1].effectiveness_score
            /\ \A b \in Bests : (\A i \in 1..Len(out) : out[i] # b) =>
                  \A i \in 1..Len(out) :
                      b.effectiveness_score <= out[i].effectiveness_score

\* four interventions improve, one is cut, and the ranking reordered the catalog
C5_Witness ==
    /\ Returned("simulate_interventions")
    /\ Cardinality(Bests) = 4
    /\ Len(ret.value) = 3
    /\ ret.value[1].effectiveness_score > ret.value[3].effectiveness_score
    /\ ret.value[1].action # interventions[1].name

\* C6: every entry simulate_interventions returns has a risk_reduction field
\* above 0, whatever current_risk the caller passes, and an intervention with
\* no magnitude that lowers the probability below current_risk has no entry.
C6_PositiveReduction ==
    Returned("simulate_interventions") =>
        /\ \A i \in 1..Len(ret.value) : ret.value[i].risk_reduction > 0
        /\ \A k \in 1..Len(interventions) :
              (\A d \in 1..Len(interventions[k].delta_range) :
                  predict(is_trained, calibrated_model,
                          ApplyDelta(FeatureOf[ret.arg.student_data],
                                     interventions[k].feature_indices,
                                     interventions[k].delta_range[d])
                         ).value.failure_probability >= ret.arg.current_risk)
              => \A i \in 1..Len(ret.value) :
                    ret.value[i].action # interventions[k].name

\* the failure_probability predict returns for the student of the call in ret
CurrentProbability ==
    predict(is_trained, calibrated_model,
            FeatureOf[ret.arg.student_data]).value.failure_probability

\* what simulate_interventions returns for that student and probability
RankedOutput ==
    simulate_interventions(is_trained, calibrated_model, ret.arg.student_data,
                           CurrentProbability).value

\* C7: when the student's predicted probability (predict's
\* failure_probability) is at most target_risk, find_minimal_safe_path
\* reports status "safe" and never invokes simulate_interventions.
C7_SafeShortCircuit ==
    (Returned("find_minimal_safe_path")
        /\ CurrentProbability <= ret.arg.target_risk) =>
        /\ ret.value.status = "safe"
        /\ \A i \in 1..Len(ret.calls) : ret.calls[i] # "simulate_interventions"

\* the probability equals the target and the call reported "safe"
C7_Witness ==
    /\ Returned("find_minimal_safe_path")
    /\ CurrentProbability = ret.arg.target_risk
    /\ ret.value.status = "safe"

\* C8: above the target, when some entry of simulate's ranked output has
\* predicted_risk <= target_risk, the outcome is "solution_found" with the
\* first such entry as the whole path and final_risk <= target_risk; the
\* comparison is on probabilities, never on risk_level labels.
C8_FirstSufficient ==
    (Returned("find_minimal_safe_path")
        /\ CurrentProbability > ret.arg.target_risk
        /\ \E i \in 1..Len(RankedOutput) :
              RankedOutput[i].predicted_risk <= ret.arg.target_risk) =>
        /\ ret.value.status = "solution_found"
        /\ ret.value.final_risk <= ret.arg.target_risk
        /\ \E i \in 1..Len(RankedOutput) :
              /\ ret.value.path = <<RankedOutput[i]>>
              /\ RankedOutput[i].predicted_risk <= ret.arg.target_risk
              /\ \A j \in 1..(i - 1) :
                    RankedOutput[j].predicted_risk > ret.arg.target_risk
              /\ ret.value.final_risk = RankedOutput[i].predicted_risk

\* a solution that is not the best-ranked entry, and one whose label is not "low"
C8_Witness ==
    /\ Returned("find_minimal_safe_path")
    /\ ret.value.status = "solution_found"
    /\ Len(RankedOutput) >= 2
    /\ ret.value.path[1] = RankedOutput[2]
    /\ RankedOutput[1].predicted_risk < 40000

\* C9 as stated: above the target with no single result reaching it, the
\* outcome is always "partial_solution" with the best-ranked intervention and
\* the caveat, also when simulate finds no improving intervention.
C9_AlwaysPartial ==
    (Returned("find_minimal_safe_path")
        /\ CurrentProbability > ret.arg.target_risk
        /\ \A i \in 1..Len(RankedOutput) :
              RankedOutput[i].predicted_risk > ret.arg.target_risk) =>
        /\ ret.value.status = "partial_solution"
        /\ ret.value.path = <<RankedOutput[1]>>
        /\ ret.value.note # ""

\* C9 amended: in that case the outcome is "partial_solution" with the
\* best-ranked intervention and the caveat when simulate returned at least one
\* result, and "no_solution" with no path when it returned none.
C9_PartialOrNoSolution ==
    (Returned("find_minimal_safe_path")
        /\ CurrentProbability > ret.arg.target_risk
        /\ \A i \in 1..Len(RankedOutput) :
              RankedOutput[i].predicted_risk > ret.arg.target_risk) =>
        IF RankedOutput # <<>>
        THEN /\ ret.value.status = "partial_solution"
             /\ ret.value.path = <<RankedOutput[1]>>
             /\ ret.value.final_risk = RankedOutput[1].predicted_risk
             /\ ret.value.total_effort = RankedOutput[1].effort_level
             /\ ret.value.note # ""
        ELSE /\ ret.value.status = "no_solution"
             /\ "path" \notin DOMAIN ret.value

\* a partial solution picked among several results of different scores
C9_Witness ==
    /\ Returned("find_minimal_safe_path")
    /\ ret.value.status = "partial_solution"
    /\ Len(RankedOutput) = 3
    /\ RankedOutput[1].effectiveness_score > RankedOutput[3].effectiveness_score

\* C2: for every graph, with cycles or an edge back into the source, the
\* map propagate_risk(source, r) returns never has source as a key.
C2_SourceExcluded ==
    Returned("propagate_risk") => ret.arg.failed_course \notin DOMAIN ret.value

\* the call expanded a course with an edge back into the source
C2_Witness ==
    /\ Returned("propagate_risk")
    /\ ret.value # NoRisks
    /\ \E i \in 1..Len(expanded) :
          HasEdge(graph, expanded[i], ret.arg.failed_course)

\* C3: propagate_risk terminates on every graph, cyclic ones included: no
\* course is expanded twice in a call, and a call inside the loop returns.
C3_Terminates ==
    /\ [](\A i, j \in 1..Len(expanded) : i # j => expanded[i] # expanded[j])
    /\ (pc = "loop") ~> (pc = "idle" /\ Returned("propagate_risk"))

\* a call returned after walking a cycle: a course it expanded passes more
\* than the 0.2 threshold back to a course expanded before it
C3_Witness ==
    /\ Returned("propagate_risk")
    /\ \E i, j \in 1..Len(expanded) :
          /\ i < j
          /\ expanded[j] \in DOMAIN ret.value
          /\ \E e \in SeqToSet(graph.edges) :
                /\ e.u = expanded[j]
                /\ e.v = expanded[i]
                /\ propagated_value(ret.value[expanded[j]], e.strength) > 20000

\* C4: when every edge strength is at most 1 and source_risk is in [0, 1],
\* every value of the returned map is at most source_risk * 0.8.
C4_DecayBound ==
    (Returned("propagate_risk")
        /\ \A e \in SeqToSet(graph.edges) : e.strength <= 100
        /\ 0 <= ret.arg.failure_risk /\ ret.arg.failure_risk <= ProbScale) =>
        \A c \in DOMAIN ret.value : 10 * ret.value[c] <= 8 * ret.arg.failure_risk

\* the bound is met by a direct dependent over an edge of strength 1, and
\* the map also holds courses further away
C4_Witness ==
    /\ Returned("propagate_risk")
    /\ \A e \in SeqToSet(graph.edges) : e.strength <= 100
    /\ ret.arg.failure_risk > 0
    /\ \E c \in DOMAIN ret.value : 10 * ret.value[c] = 8 * ret.arg.failure_risk
    /\ \E c \in DOMAIN ret.value :
          ~HasEdge(graph, ret.arg.failed_course, c)

\* C11: for every PredictionResult predict returns, with p its
\* failure_probability, confidence = |p - 0.5| * 2, it lies in [0, 1], is 0
\* when p = 0.5 and is 1 when p is 0 or 1.
C11_ConfidenceFromProbability ==
    (ret.op = "predict" /\ ret.outcome = "ok") =>
        LET p == ret.value.failure_probability
            confidence == ret.value.confidence
        IN  /\ confidence = Abs(p - 50000) * 2
            /\ 0 <= confidence /\ confidence <= ProbScale
            /\ p = 50000 => confidence = 0
            /\ p \in {0, ProbScale} => confidence = ProbScale

\* the part of C11 the code keeps: the returned confidence lies in [0, 1]
\* and is within one rounding step (1e-4) of |p - 0.5| * 2
C11_ConfidenceInRange ==
    (ret.op = "predict" /\ ret.outcome = "ok") =>
        /\ 0 <= ret.value.confidence /\ ret.value.confidence <= ProbScale
        /\ Abs(ret.value.confidence
               - Abs(ret.value.failure_probability - 50000) * 2) <= 10

----------------------------------------------------------------------------
(* The feature engineer on its own: extract_features over student records  *)
(* of every shape.                                                         *)

\* attendance histories: empty, one week, two weeks, and longer ones
Attendances ==
    { <<>>, <<80>>, <<80, 70>>, <<75, 72, 68>>, <<75, 72, 68, 65, 62>>,
      <<60, 65, 70, 75, 80, 85, 90, 95, 100, 100, 100, 100>> }

\* marks histories: empty, subjects without marks or with one mark only,
\* subjects with two marks and more, and mixtures
MarksHistories ==
    { <<>>, << <<>> >>, << <<9>> >>, << <<15, 17>> >>,
      << <<15, 17, 14>>, <<18, 16, 15>> >>,
      << <<18, 19>>, <<12>>, <<16, 18, 19>>, <<>> >> }

SubjectLists == { <<>>, <<"Math">>, <<"Math", "Physics", "History">> }

StudentRecords ==
    [attendance_history : Attendances, marks_history : MarksHistories,
     current_subjects : SubjectLists, semester : {0, 1, 8},
     previous_failures : {0, 2}]

\* extract_features(student_data), lines 21-63
ExtractFeatures(student_data) ==
    /\ ret.op = "idle"
    /\ ret' = Call("extract_features", student_data, "ok",
                   extract_features(student_data))
    /\ UNCHANGED <<predictor_vars, graph_vars, thread_vars>>

\* get_feature_names(), lines 213-232
GetFeatureNames ==
    /\ ret.op = "idle"
    /\ ret' = Call("get_feature_names", <<>>, "ok", get_feature_names)
    /\ UNCHANGED <<predictor_vars, graph_vars, thread_vars>>

FeatureInit == Constructed(NoStore) /\ GraphConstructed

FeatureNext ==
    \/ \E s \in StudentRecords : ExtractFeatures(s)
    \/ GetFeatureNames
    \/ Return

FeatureSpec == FeatureInit /\ [][FeatureNext]_vars

\* C12: extract_features returns exactly 22 values for every student record,
\* whatever the lengths of the attendance history, the marks history and the
\* subject list; the count is the number of names get_feature_names returns.
C12_TwentyTwoFeatures ==
    /\ Returned("extract_features") =>
          (Len(ret.value) = 22 /\ Len(ret.value) = Len(get_feature_names))
    /\ Returned("get_feature_names") => Len(ret.value) = 22

\* a record with one week of attendance, a marks history in which no subject
\* has two marks, and no subjects
C12_Witness ==
    /\ Returned("extract_features")
    /\ Len(ret.arg.attendance_history) = 1
    /\ ret.arg.marks_history # <<>>
    /\ WithHistory(ret.arg.marks_history) = <<>>
    /\ ret.arg.current_subjects = <<>>
    /\ Len(ret.value) = 22

----------------------------------------------------------------------------
(* Threads.  One thread runs train or load_model line by line while        *)
(* another runs predict: the class takes no lock, and every assignment to  *)
(* a field and every read of one is a step of its own.                     *)

WriterAt(op, at, arg) == [op |-> op, pc |-> at, arg |-> arg, outcome |-> "running"]
WriterDone(op, outcome) == [op |-> op, pc |-> "idle", arg |-> <<>>, outcome |-> outcome]

\* train, lines 43-45: train_test_split
TrainSplit(d) ==
    /\ writer.pc = "idle"
    /\ writer' = IF d.raises = "split" THEN WriterDone("train", "ValueError")
                 ELSE WriterAt("train", "split", <<d>>)
    /\ UNCHANGED <<predictor_vars, graph_vars, reader, ret>>

\* train, lines 48-56: self.model = GradientBoostingClassifier(...)
TrainNewModel ==
    /\ writer.op = "train" /\ writer.pc = "split"
    /\ model' = Unfitted
    /\ writer' = [writer EXCEPT !.pc = "model_new"]
    /\ UNCHANGED <<calibrated_model, is_trained, store, ever_ready,
                   graph_vars, reader, ret>>

\* train, line 58: self.model.fit(X_train, y_train)
TrainFitModel ==
    /\ writer.op = "train" /\ writer.pc = "model_new"
    /\ IF writer.arg[1].raises = "fit"
       THEN /\ writer' = WriterDone("train", "ValueError")
            /\ UNCHANGED model
       ELSE /\ model' = Fitted(writer.arg[1].clf)
            /\ writer' = [writer EXCEPT !.pc = "model_fitted"]
    /\ UNCHANGED <<calibrated_model, is_trained, store, ever_ready,
                   graph_vars, reader, ret>>

\* train, lines 62-74: self.calibrated_model = CalibratedClassifierCV(...)
TrainNewCalibrated ==
    /\ writer.op = "train" /\ writer.pc = "model_fitted"
    /\ calibrated_model' = Unfitted
    /\ writer' = [writer EXCEPT !.pc = "calibrated_new"]
    /\ UNCHANGED <<model, is_trained, store, ever_ready, graph_vars, reader, ret>>

\* train, lines 76-78: self.calibrated_model.fit(X_combined, y_combined)
TrainFitCalibrated ==
    /\ writer.op = "train" /\ writer.pc = "calibrated_new"
    /\ IF writer.arg[1].raises = "calibrate"
       THEN /\ writer' = WriterDone("train", "ValueError")
            /\ UNCHANGED calibrated_model
       ELSE /\ calibrated_model' = Fitted(writer.arg[1].clf)
            /\ writer' = [writer EXCEPT !.pc = "calibrated_fitted"]
    /\ UNCHANGED <<model, is_trained, store, ever_ready, graph_vars, reader, ret>>

\* train, lines 80-91: self.is_trained = True, and the metrics are returned
TrainFinish ==
    /\ writer.op = "train" /\ writer.pc = "calibrated_fitted"
    /\ is_trained' = TRUE
    /\ ever_ready' = TRUE
    /\ writer' = WriterDone("train", "ok")
    /\ UNCHANGED <<model, calibrated_model, store, graph_vars, reader, ret>>

\* load_model, lines 163-166: the existence check and joblib.load
LoadRead ==
    /\ writer.pc = "idle"
    /\ writer' = IF ~store.exists THEN WriterDone("load_model", "FileNotFoundError")
                 ELSE WriterAt("load_model", "loaded", <<store>>)
    /\ UNCHANGED <<predictor_vars, graph_vars, reader, ret>>

\* load_model, line 167: self.model = loaded['model']
LoadSetModel ==
    /\ writer.op = "load_model" /\ writer.pc = "loaded"
    /\ model' = writer.arg[1].model
    /\ writer' = [writer EXCEPT !.pc = "model_set"]
    /\ UNCHANGED <<calibrated_model, is_trained, store, ever_ready,
                   graph_vars, reader, ret>>

\* load_model, line 168: self.calibrated_model = loaded['calibrated_model']
LoadSetCalibrated ==
    /\ writer.op = "load_model" /\ writer.pc = "model_set"
    /\ calibrated_model' = writer.arg[1].calibrated_model
    /\ writer' = [writer EXCEPT !.pc = "calibrated_set"]
    /\ UNCHANGED <<model, is_trained, store, ever_ready, graph_vars, reader, ret>>

\* load_model, line 169: self.is_trained = True
LoadFinish ==
    /\ writer.op = "load_model" /\ writer.pc = "calibrated_set"
    /\ is_trained' = TRUE
    /\ ever_ready' = TRUE
    /\ writer' = WriterDone("load_model", "ok")
    /\ UNCHANGED <<model, calibrated_model, store, graph_vars, reader, ret>>

\* what a run of predict read and what it gave; the reader keeps its last two
Run(s, trained, cm, outcome, value) ==
    [s |-> s, trained |-> trained, cm |-> cm, outcome |-> outcome, value |-> value]
LastTwo(runs) == IF Len(runs) > 2 THEN Tail(runs) ELSE runs

\* predict, lines 108-113: the is_trained check
PredictEnter(s) ==
    /\ ret.op = "idle"
    /\ reader.pc = "idle"
    /\ IF ~is_trained
       THEN /\ ret' = Call("predict", s, "ValueError", NoValue)
            /\ reader' = [reader EXCEPT !.runs =
                             LastTwo(Append(@, Run(s, FALSE, NoEstimator,
                                                   "ValueError", NoValue)))]
       ELSE /\ ret' = Call("predict", s, "running", NoValue)
            /\ reader' = [reader EXCEPT !.pc = "checked", !.arg = <<s>>]
    /\ UNCHANGED <<predictor_vars, graph_vars, writer>>

PredictProba_forgetting ==
    /\ reader.pc = "checked"
    /\ ret' = Call("predict", reader.arg[1], "ok",
                   PredictionResult(predict_proba(calibrated_model,
                                                  FeatureOf[reader.arg[1]])))
    /\ reader' = [pc |-> "idle", arg |-> <<>>, runs |-> reader.runs]
    /\ is_trained' = FALSE
    /\ UNCHANGED <<model, calibrated_model, store, ever_ready, graph_vars, writer>>

\* the run of predict that ends: what it read at lines 108 and 116, and its result
EndRun(s, cm, r) ==
    /\ ret' = Call("predict", s, r.outcome, r.value)
    /\ reader' = [pc |-> "idle", arg |-> <<>>,
                  runs |-> LastTwo(Append(reader.runs,
                                          Run(s, TRUE, cm, r.outcome, r.value)))]

\* predict, lines 116-138: predict_proba on self.calibrated_model as it is
\* now, and the result
PredictProba ==
    /\ reader.pc = "checked"
    /\ EndRun(reader.arg[1], calibrated_model,
              predict(TRUE, calibrated_model, FeatureOf[reader.arg[1]]))
    /\ UNCHANGED <<predictor_vars, graph_vars, writer>>

\* the records predict is called with, and the training sets: fits that succeed
ConcStudents == {s \in Students : s.semester \in {1, 3}}
ConcTrainingSets == {d \in TrainingSets : d.raises = "none"}

ConcInit ==
    \E st \in {NoStore} \cup
              { [exists |-> TRUE, model |-> Fitted(c), calibrated_model |-> Fitted(c)] :
                c \in TrainableClassifiers } :
        Constructed(st) /\ GraphConstructed

ConcNext ==
    \/ \E d \in ConcTrainingSets : TrainSplit(d)
    \/ TrainNewModel
    \/ TrainFitModel
    \/ TrainNewCalibrated
    \/ TrainFitCalibrated
    \/ TrainFinish
    \/ LoadRead
    \/ LoadSetModel
    \/ LoadSetCalibrated
    \/ LoadFinish
    \/ \E s \in ConcStudents : PredictEnter(s)
    \/ PredictProba
    \/ Return

ConcSpec == ConcInit /\ [][ConcNext]_vars

\* two runs read the same record and the same predictor state
SameInputs(a, b) == a.s = b.s /\ a.trained = b.trained /\ a.cm = b.cm

C14_SerializedRetrain ==
    \A i \in 1..Len(reader.runs) :
        reader.runs[i].trained =>
            (reader.runs[i].outcome = "ok" /\ reader.runs[i].cm.state = "fitted")

\* C15: load_model with the model store absent fails with the not-found
\* error and leaves model, calibrated_model and is_trained as they were;
\* save_model on an untrained predictor fails and writes nothing.
C15_FailedLoadSaveKeepState ==
    [][/\ (ret.op = "idle" /\ ret'.op = "load_model" /\ ~store.exists) =>
             (/\ ret'.outcome = "FileNotFoundError"
              /\ UNCHANGED <<model, calibrated_model, is_trained, store>>)
       /\ (ret.op = "idle" /\ ret'.op = "save_model" /\ ~is_trained) =>
             (ret'.outcome = "ValueError" /\ UNCHANGED store)]_vars

\* load_model has failed on a trained predictor, which is still trained
C15_Witness ==
    /\ ret.op = "load_model"
    /\ ret.outcome = "FileNotFoundError"
    /\ ~store.exists
    /\ is_trained
    /\ calibrated_model.state = "fitted"

\* a query of one course has returned or raised, and the course it was
\* called with is not in the graph
UnknownCourseQuery(op) ==
    /\ ret.op = op
    /\ ret.op \in {"get_prerequisites", "get_dependent_courses",
                   "calculate_dependency_depth"}
          => ~HasNode(graph, ret.arg.course)
    /\ ret.op = "propagate_risk" => ~HasNode(graph, ret.arg.failed_course)
    /\ ret.op = "get_learning_path" => ~HasNode(graph, ret.arg.target_course)
    /\ ret.op = "get_critical_prerequisites"
          => /\ ret.arg.current_courses # <<>>
             /\ \A i \in 1..Len(ret.arg.current_courses) :
                   ~HasNode(graph, ret.arg.current_courses[i])

\* C16 as stated: every KnowledgeGraph query called with a course name that
\* is not in the graph returns an empty result (an empty list, an empty
\* mapping, depth 0) and never raises; get_learning_path included.
C16_UnknownCourseEmpty ==
    /\ UnknownCourseQuery("get_prerequisites")
          => ret.outcome = "ok" /\ ret.value.prerequisites = <<>>
    /\ UnknownCourseQuery("get_dependent_courses")
          => ret.outcome = "ok" /\ ret.value.dependents = <<>>
    /\ UnknownCourseQuery("get_critical_prerequisites")
          => ret.outcome = "ok" /\ ret.value.critical_prereqs = <<>>
    /\ UnknownCourseQuery("get_learning_path")
          => ret.outcome = "ok" /\ ret.value.path = <<>>
    /\ UnknownCourseQuery("calculate_dependency_depth")
          => ret.outcome = "ok" /\ ret.value.depth = 0
    /\ UnknownCourseQuery("propagate_risk")
          => ret.outcome = "ok" /\ ret.value = NoRisks

\* C16 amended: no KnowledgeGraph query raises for a course name that is
\* not in the graph; get_prerequisites, get_dependent_courses and
\* get_critical_prerequisites return an empty list, propagate_risk an empty
\* mapping, calculate_dependency_depth 0, and get_learning_path the
\* one-element sequence holding the name it was given.
C16_UnknownCourseFailSoft ==
    /\ UnknownCourseQuery("get_prerequisites")
          => ret.outcome = "ok" /\ ret.value.prerequisites = <<>>
    /\ UnknownCourseQuery("get_dependent_courses")
          => ret.outcome = "ok" /\ ret.value.dependents = <<>>
    /\ UnknownCourseQuery("get_critical_prerequisites")
          => ret.outcome = "ok" /\ ret.value.critical_prereqs = <<>>
    /\ UnknownCourseQuery("calculate_dependency_depth")
          => ret.outcome = "ok" /\ ret.value.depth = 0
    /\ UnknownCourseQuery("propagate_risk")
          => ret.outcome = "ok" /\ ret.value = NoRisks
    /\ UnknownCourseQuery("get_learning_path")
          => ret.outcome = "ok" /\ ret.value.path = <<ret.arg.target_course>>

\* get_learning_path was called with a course that is not in the graph
C16_Witness ==
    /\ UnknownCourseQuery("get_learning_path")
    /\ ret.arg.target_course = "Astrology"
    /\ ret.outcome = "ok"

\* the edges into course c from courses the source s reaches
RelevantIn(g, s, c) ==
    SelectSeq(g.edges, LAMBDA e : e.v = c /\ has_path(g, s, e.u))

\* the only path from s to c, as its edges from s onwards: a course that s
\* reaches by one path has one relevant edge into it, and so has every
\* course before it on the path, back to s, which has none
RECURSIVE SinglePath(_, _, _, _)
SinglePath(g, s, c, fuel) ==
    IF c = s THEN [single |-> RelevantIn(g, s, s) = <<>>, edges |-> <<>>]
    ELSE IF fuel = 0 \/ Len(RelevantIn(g, s, c)) # 1
    THEN [single |-> FALSE, edges |-> <<>>]
    ELSE [single |-> SinglePath(g, s, RelevantIn(g, s, c)[1].u, fuel - 1).single,
          edges |-> Append(SinglePath(g, s, RelevantIn(g, s, c)[1].u,
                                      fuel - 1).edges,
                           RelevantIn(g, s, c)[1])]

\* source_risk x (s1 x 0.8) x ... x (sk x 0.8) for the first k edges of a path
RECURSIVE DecayedAlong(_, _, _)
DecayedAlong(source_risk, edges, k) ==
    IF k = 0 THEN source_risk
    ELSE (DecayedAlong(source_risk, edges, k - 1) * edges[k].strength * 8) \div 1000

\* what C17 says of a course whose only path from the source is given
SinglePathValue(risks, source_risk, edges, c) ==
    LET present == \A k \in 1..(Len(edges) - 1) :
                      DecayedAlong(source_risk, edges, k) > 20000
    IN  /\ c \in DOMAIN risks <=> present
        /\ present => risks[c] = DecayedAlong(source_risk, edges, Len(edges))

\* C17: a course that the source reaches by a single path with strengths
\* s1..sk gets the value source_risk x (s1 x 0.8) x ... x (sk x 0.8) from
\* propagate_risk, and is present exactly when every earlier course on the
\* path received a value above 0.2; over the edges 0.9 and 0.8 a source risk
\* of 1.0 gives 0.72 and 0.4608 and no entry for the source.
C17_SinglePathProduct ==
    Returned("propagate_risk") /\ HasNode(graph, ret.arg.failed_course) =>
        /\ \A c \in SeqToSet(graph.nodes) \ {ret.arg.failed_course} :
              (/\ has_path(graph, ret.arg.failed_course, c)
               /\ SinglePath(graph, ret.arg.failed_course, c,
                             Len(graph.nodes)).single)
              => SinglePathValue(ret.value, ret.arg.failure_risk,
                                 SinglePath(graph, ret.arg.failed_course, c,
                                            Len(graph.nodes)).edges, c)
        /\ (/\ ret.arg.failed_course = "Calculus I"
            /\ ret.arg.failure_risk = 100000
            /\ SinglePath(graph, "Calculus I", "Engineering Mathematics",
                          Len(graph.nodes))
                   = [single |-> TRUE,
                      edges |-> << [u |-> "Calculus I", v |-> "Calculus II",
                                    strength |-> 90],
                                   [u |-> "Calculus II",
                                    v |-> "Engineering Mathematics",
                                    strength |-> 80] >>])
           => /\ ret.value["Calculus II"] = 72000
              /\ ret.value["Engineering Mathematics"] = 46080
              /\ "Calculus I" \notin DOMAIN ret.value

\* a run from "Calculus I" with risk 0.45 has returned: "Physics II", on the
\* single path over "Physics I", got a value of at most 0.2 and is recorded,
\* and "Quantum Mechanics" behind it is absent
C17_Witness ==
    /\ Returned("propagate_risk")
    /\ ret.arg.failed_course = "Calculus I"
    /\ ret.arg.failure_risk = 45000
    /\ SinglePath(graph, "Calculus I", "Quantum Mechanics", Len(graph.nodes)).single
    /\ Len(SinglePath(graph, "Calculus I", "Quantum Mechanics",
                      Len(graph.nodes)).edges) = 3
    /\ "Physics II" \in DOMAIN ret.value
    /\ ret.value["Physics II"] <= 20000
    /\ "Quantum Mechanics" \notin DOMAIN ret.value

\* no course has a path back to itself
Acyclic(g) == \A e \in SeqToSet(g.edges) : ~has_path(g, e.v, e.u)

\* the number of edges of the longest path ending at v, in an acyclic graph
RECURSIVE LongestTo(_, _)
LongestTo(g, v) ==
    IF predecessors(g, v) = <<>> THEN 0
    ELSE 1 + SetMax({LongestTo(g, predecessors(g, v)[i].u) :
                        i \in 1..Len(predecessors(g, v))})

\* C18: on every acyclic graph calculate_dependency_depth(course) is the
\* number of edges of the longest path that ends at course, also when an
\* ancestor reaches the course by a short and by a long path; it is 0 when
\* the course has no ancestor or is unknown.
C18_LongestPathDepth ==
    Returned("calculate_dependency_depth") /\ Acyclic(graph) =>
        ret.value.depth = IF HasNode(graph, ret.arg.course)
                          THEN LongestTo(graph, ret.arg.course)
                          ELSE 0

\* the position of course c in a path
PositionIn(path, c) == CHOOSE i \in 1..Len(path) : path[i] = c

\* the edges between two courses of a set
EdgesWithin(g, members) ==
    {e \in SeqToSet(g.edges) : e.u \in members /\ e.v \in members}

\* a topological order of the courses with a path to the target and the
\* target: each of them once, every prerequisite before its dependents
TopologicalOrder(g, path, target_course) ==
    /\ SeqToSet(path) = {n \in SeqToSet(g.nodes) : has_path(g, n, target_course)}
    /\ \A i, j \in 1..Len(path) : path[i] = path[j] => i = j
    /\ \A e \in EdgesWithin(g, SeqToSet(path)) :
          PositionIn(path, e.u) < PositionIn(path, e.v)
    /\ path[Len(path)] = target_course

\* C19: for a known target whose ancestor subgraph is acyclic,
\* get_learning_path returns every ancestor of the target and the target
\* exactly once, every prerequisite before each of its dependents, the
\* target last; for an unknown target, or a subgraph with a cycle, it
\* returns the one-element sequence [target].
C19_LearningPathOrder ==
    ret.op = "get_learning_path" =>
        /\ ret.outcome = "ok"
        /\ IF /\ HasNode(graph, ret.arg.target_course)
              /\ \A e \in EdgesWithin(graph,
                            {n \in SeqToSet(graph.nodes) :
                                has_path(graph, n, ret.arg.target_course)}) :
                    ~has_path(graph, e.v, e.u)
           THEN TopologicalOrder(graph, ret.value.path, ret.arg.target_course)
           ELSE ret.value.path = <<ret.arg.target_course>>

\* the path to "Machine Learning" over a graph that add_dependency changed,
\* with the subgraph iterated in the other order: four ancestors and the
\* target
C19_Witness ==
    /\ Returned("get_learning_path")
    /\ ret.arg.target_course = "Machine Learning"
    /\ ret.arg.reversed
    /\ added > 0
    /\ Len(ret.value.path) >= 5
    /\ ret.value.path[Len(ret.value.path)] = "Machine Learning"

\* the given courses that have prereq as a direct prerequisite, each as
\* often as it was given
DependentsAmong(g, current_courses, prereq) ==
    SelectSeq(current_courses, LAMBDA c : HasEdge(g, prereq, c))

\* (number of given courses depending on prereq) x (mean strength of its
\* edges to them), in units of 1/1000
CriticalityOf(g, current_courses, prereq) ==
    LET mine == DependentsAmong(g, current_courses, prereq)
    IN  RoundDiv(Len(mine) * 10
                   * SeqSum([i \in 1..Len(mine) |-> EdgeStrength(g, prereq, mine[i])]),
                 Len(mine))

\* one entry per direct prerequisite of a given course, with criticality =
\* count x mean strength, ordered by criticality descending
CriticalityRanking(g, current_courses, entries) ==
    /\ {entries[i].subject : i \in 1..Len(entries)}
          = {n \in SeqToSet(g.nodes) : DependentsAmong(g, current_courses, n) # <<>>}
    /\ \A i, j \in 1..Len(entries) : entries[i].subject = entries[j].subject => i = j
    /\ \A i \in 1..Len(entries) :
          entries[i].criticality = CriticalityOf(g, current_courses, entries[i].subject)
    /\ \A i \in 1..(Len(entries) - 1) :
          entries[i].criticality >= entries[i + 1].criticality

\* a prerequisite shared by two given courses with strengths 0.8 and 0.6 has
\* criticality 1.4 and stands before every prerequisite of one given course
SharedRankedFirst(g, current_courses, entries) ==
    \A i \in 1..Len(entries) :
        (/\ Len(entries[i].dependent_courses) = 2
         /\ {EdgeStrength(g, entries[i].subject, entries[i].dependent_courses[k]) :
                k \in 1..2} = {80, 60})
        => /\ entries[i].criticality = 1400
           /\ \A j \in 1..Len(entries) :
                 Len(entries[j].dependent_courses) = 1 => i < j

\* the part of C20 that holds: one entry per direct prerequisite of a given
\* course, criticality = count x mean strength, descending order
C20_CriticalityRanking ==
    Returned("get_critical_prerequisites") =>
        CriticalityRanking(graph, ret.arg.current_courses,
                           ret.value.critical_prereqs)

\* C20: get_critical_prerequisites returns one entry per direct prerequisite
\* of a given course, with criticality = (number of given courses depending
\* on it) x (mean strength of its edges to them), ordered by criticality
\* descending; a prerequisite shared by two given courses with strengths 0.8
\* and 0.6 gets 1.4 and is ranked above every prerequisite of only one given
\* course.
C20_CriticalPrerequisites ==
    Returned("get_critical_prerequisites") =>
        /\ CriticalityRanking(graph, ret.arg.current_courses,
                              ret.value.critical_prereqs)
        /\ SharedRankedFirst(graph, ret.arg.current_courses,
                             ret.value.critical_prereqs)

\* the value of one slot after the named interventions were applied in
\* order: every name of the catalog that lists the slot adds the second
\* entry of its delta range (or its only one), clipped to [0, 1] each time
RECURSIVE SlotAfter(_, _, _)
SlotAfter(v, names, slot) ==
    IF names = <<>> THEN v
    ELSE IF \E k \in 1..Len(interventions) :
               /\ interventions[k].name = Head(names)
               /\ \E i \in 1..Len(interventions[k].feature_indices) :
                     interventions[k].feature_indices[i] = slot
    THEN LET k == CHOOSE j \in 1..Len(interventions) :
                     interventions[j].name = Head(names)
             d == interventions[k].delta_range[
                      IF Len(interventions[k].delta_range) = 1 THEN 1 ELSE 2]
         IN  SlotAfter(Max2(0, Min2(100, v + d)), Tail(names), slot)
    ELSE SlotAfter(v, Tail(names), slot)

\* the sum of the effort costs of the names that are in the catalog
RECURSIVE EffortOf(_)
EffortOf(names) ==
    IF names = <<>> THEN 0
    ELSE EffortOf(Tail(names))
         + (IF \E k \in 1..Len(interventions) : interventions[k].name = Head(names)
            THEN (CHOOSE x \in {interventions[k] : k \in 1..Len(interventions)} :
                     x.name = Head(names)).effort_cost
            ELSE 0)

\* C21: simulate_combined_interventions applies, for each given name that is
\* in the catalog, the second entry of its delta range (or its only entry) to
\* each of its slots on one working vector, clipping each touched slot to
\* [0, 1] and stacking effects on a slot touched twice; total_effort is the
\* sum of the effort costs of the interventions applied; combined_risk is the
\* predictor's probability for the final vector; names that are not in the
\* catalog change neither the vector nor total_effort.
C21_CombinedInterventions ==
    Returned("simulate_combined_interventions") =>
        /\ ret.value.total_effort = EffortOf(ret.arg.interventions)
        /\ ret.value.combined_risk =
              predict(is_trained, calibrated_model,
                      [j \in 1..Len(FeatureOf[ret.arg.student_data]) |->
                          SlotAfter(FeatureOf[ret.arg.student_data][j],
                                    ret.arg.interventions, j - 1)]
                     ).value.failure_probability
        /\ ret.value.original_risk =
              predict(is_trained, calibrated_model,
                      FeatureOf[ret.arg.student_data]).value.failure_probability

\* a call with a name given twice and a name that is not in the catalog: the
\* effort of the known name counts twice, and the stacked steps on its slot
\* lowered the probability further than one step does
C21_Witness ==
    /\ Returned("simulate_combined_interventions")
    /\ ret.arg.interventions = <<"Improve Attendance", "Tutoring", "Improve Attendance">>
    /\ ret.value.total_effort = 4
    /\ ret.value.combined_risk <
          simulate_combined_interventions(is_trained, calibrated_model,
                                          ret.arg.student_data,
                                          <<"Improve Attendance">>).value.combined_risk

\* C22: the graph's nodes, edges and strengths are changed by add_dependency
\* only: the six queries and export_graph, and every step of propagate_risk,
\* leave the graph as it is; and export_graph lists exactly the current
\* nodes, each once, and the current edges with their current strengths.
C22_GraphChangedOnlyByAdd ==
    /\ [](Returned("export_graph") =>
            /\ Len(ret.value.exported.nodes) = Len(graph.nodes)
            /\ {n.id : n \in SeqToSet(ret.value.exported.nodes)} = SeqToSet(graph.nodes)
            /\ Len(ret.value.exported.edges) = Len(graph.edges)
            /\ {<<e.source, e.target, e.strength>> :
                   e \in SeqToSet(ret.value.exported.edges)}
                  = {<<e.u, e.v, e.strength>> : e \in SeqToSet(graph.edges)})
    /\ [][graph' # graph => ret.op = "idle" /\ ret'.op = "add_dependency"]_vars

\* export_graph after add_dependency gave an existing edge a new strength
\* and added an edge to a new course
C22_Witness ==
    /\ Returned("export_graph")
    /\ added = 2
    /\ Len(ret.value.exported.nodes) = Len(_initialize_default_graph.nodes) + 1
    /\ \E i \in 1..Len(ret.value.exported.edges) :
          ret.value.exported.edges[i]
              = [source |-> "Calculus I", target |-> "Physics I", strength |-> 30]

\* C23: a course other than the source is expanded with its accumulated
\* risk, the maximum of the values propagated to it, which is its value in
\* the returned map, also when several paths deliver different values; so
\* every dependent of an expanded course holds at least the accumulated risk
\* of that course x strength x 0.8, the kept value being the maximum of the
\* values propagated to the dependent.
C23_ExpandsAccumulatedRisk ==
    Returned("propagate_risk") =>
        \A i \in 1..Len(expanded) :
            expanded[i] # ret.arg.failed_course =>
                \A e \in SeqToSet(successors(graph, expanded[i])) :
                    e.v # ret.arg.failed_course =>
                        /\ e.v \in DOMAIN ret.value
                        /\ ret.value[e.v] >= propagated_value(ret.value[expanded[i]],
                                                              e.strength)

\* C24: in every state of the knowledge graph, after construction and after
\* any add_dependency calls, every edge has a strength in (0, 1] and no edge
\* goes from a course to itself.
C24_StrengthsAndNoSelfLoops ==
    \A e \in SeqToSet(graph.edges) :
        /\ 0 < e.strength
        /\ e.strength <= 100
        /\ e.u # e.v

\* the part of C24 that holds: the graph as constructed has strengths in
\* (0, 1] and no self-loop
C24_DefaultGraphValid ==
    added = 0 => C24_StrengthsAndNoSelfLoops

\* the probability predicted for the student of the call in ret when the
\* d-th magnitude of the k-th catalog intervention alone is applied to the
\* student's current feature vector
AloneRisk(k, d) ==
    predict(is_trained, calibrated_model,
            ApplyDelta(FeatureOf[ret.arg.student_data],
                       interventions[k].feature_indices,
                       interventions[k].delta_range[d])).value.failure_probability

\* the magnitude C25 says is kept for the k-th intervention: improving, of
\* the greatest risk reduction (the effort cost is the same for all), the
\* earliest of those; 0 when no magnitude improves
KeptMagnitude(k) ==
    IF \A d \in 1..Len(interventions[k].delta_range) :
          AloneRisk(k, d) >= ret.arg.current_risk
    THEN 0
    ELSE CHOOSE d \in 1..Len(interventions[k].delta_range) :
            /\ AloneRisk(k, d) < ret.arg.current_risk
            /\ \A e \in 1..Len(interventions[k].delta_range) :
                  /\ AloneRisk(k, e) >= AloneRisk(k, d)
                  /\ e < d => AloneRisk(k, e) > AloneRisk(k, d)

\* C25: for each catalog intervention every candidate magnitude is evaluated
\* on its own on the student's current feature vector, magnitudes never
\* accumulating, and the improving magnitude of the greatest effectiveness =
\* risk_reduction / effort_cost is kept, the earliest of the delta range when
\* several tie; an intervention without an improving magnitude gives nothing.
C25_BestMagnitude ==
    Returned("simulate_interventions") =>
        \A k \in 1..Len(interventions) :
            /\ BestOf(k).found <=> KeptMagnitude(k) # 0
            /\ BestOf(k).found =>
                  /\ BestOf(k).action = interventions[k].name
                  /\ BestOf(k).predicted_risk = AloneRisk(k, KeptMagnitude(k))
                  /\ BestOf(k).risk_reduction
                        = Round4(ret.arg.current_risk - AloneRisk(k, KeptMagnitude(k)))
                  /\ BestOf(k).description
                        = _format_delta(interventions[k].delta_range[KeptMagnitude(k)],
                                        interventions[k])
                  /\ BestOf(k).effort_level = interventions[k].effort_cost
            /\ \A i \in 1..Len(ret.value) :
                  ret.value[i].action = interventions[k].name
                      => ret.value[i] = BestOf(k)

\* "Improve Attendance" is returned with its second magnitude: the first
\* does not improve, and the second and the last give the same probability
C25_Witness ==
    /\ Returned("simulate_interventions")
    /\ \E i \in 1..Len(ret.value) :
          /\ ret.value[i].action = "Improve Attendance"
          /\ ret.value[i].description = 10
    /\ AloneRisk(1, 1) >= ret.arg.current_risk
    /\ AloneRisk(1, 2) = AloneRisk(1, 4)
    /\ KeptMagnitude(1) = 2

\* the orders in which the four catalog interventions can be evaluated
CatalogOrders ==
    {p \in [1..Len(interventions) -> 1..Len(interventions)] :
        \A i, j \in 1..Len(interventions) : p[i] = p[j] => i = j}

\* what simulate_interventions returns when the loop of lines 72-80 takes
\* the catalog in the order p: the bests found, in that order, ranked and
\* cut to three
RankedInOrder(p) ==
    FirstK(SortDesc(LET found == SelectSeq(p, LAMBDA k : BestOf(k).found)
                    IN  [i \in 1..Len(found) |-> BestOf(found[i])]),
           3)

\* C26: the list simulate_interventions returns is the same for every order
\* in which the catalog's interventions are evaluated, also when two
\* interventions have equal effectiveness_score and when more than three
\* interventions improve the risk.
C26_OrderIndependent ==
    Returned("simulate_interventions") =>
        \A p \in CatalogOrders : RankedInOrder(p) = ret.value

\* the part of C26 that holds: the order of evaluation has no influence
\* when no two bests have the same effectiveness_score
C26_OrderIndependentWithoutTies ==
    (Returned("simulate_interventions")
        /\ \A a, b \in Bests :
              a # b => a.effectiveness_score # b.effectiveness_score) =>
        \A p \in CatalogOrders : RankedInOrder(p) = ret.value

----------------------------------------------------------------------------
(* The perturbation step of simulate_interventions and                     *)
(* simulate_combined_interventions on vectors of any length.               *)

\* the working vectors, slot lists and magnitudes of the step: vectors of
\* no to three slots, slot lists inside the vector, outside it, and both
Perturbations ==
    [features : UNION {[1..n -> {0, 50, 95}] : n \in 0..3},
     indices : { <<>>, <<0>>, <<0, 1>>, <<1, 5>>, <<5, 1>>, <<7, 2>>, <<3>>, <<20>> },
     delta : {-10, 10, 20}]

\* lines 100-104 and 194-197: the for loop over the intervention's slots
ModifyFeatures(features, indices, delta) ==
    /\ ret.op = "idle"
    /\ ret' = Call("modify_features",
                   [features |-> features, indices |-> indices, delta |-> delta],
                   "ok",
                   [modified_features |-> ApplyDelta(features, indices, delta)])
    /\ UNCHANGED <<predictor_vars, graph_vars, thread_vars>>

PerturbNext ==
    \/ \E p \in Perturbations : ModifyFeatures(p.features, p.indices, p.delta)
    \/ Return

PerturbSpec == FeatureInit /\ [][PerturbNext]_vars

\* C27: a slot index of an intervention that lies outside the feature vector
\* is skipped without raising: the vector keeps its length, the slots of the
\* intervention that are inside the vector are still perturbed (delta added,
\* clipped to [0, 1]), and the slots it does not name are unchanged.
C27_OutOfRangeSkipped ==
    ret.op = "modify_features" =>
        /\ ret.outcome = "ok"
        /\ Len(ret.value.modified_features) = Len(ret.arg.features)
        /\ \A j \in 1..Len(ret.arg.features) :
              ret.value.modified_features[j]
                  = IF \E i \in 1..Len(ret.arg.indices) : ret.arg.indices[i] = j - 1
                    THEN Max2(0, Min2(100, ret.arg.features[j] + ret.arg.delta))
                    ELSE ret.arg.features[j]

\* a slot list whose first index is outside a vector of three slots and
\* whose second is inside: the second slot was perturbed, the others not
C27_Witness ==
    /\ Returned("modify_features")
    /\ ret.arg.indices = <<5, 1>>
    /\ ret.arg.features = <<50, 50, 50>>
    /\ ret.arg.delta = 20
    /\ ret.value.modified_features = <<50, 70, 50>>

\* C28: the eight marks slots, vector positions 6 to 13, are all 0 whenever
\* no subject of the marks history has at least two recorded scores, also
\* when the history is not empty and every subject has no or one score.
C28_MarksSlotsZero ==
    (Returned("extract_features")
        /\ \A i \in 1..Len(ret.arg.marks_history) :
              Len(ret.arg.marks_history[i]) < 2) =>
        \A slot \in 6..13 : ret.value[slot + 1] = 0

\* the part of C28 that holds: the first seven marks slots are 0, and the
\* eighth is the number of subjects in the marks history
C28_SevenMarksSlotsZero ==
    (Returned("extract_features")
        /\ \A i \in 1..Len(ret.arg.marks_history) :
              Len(ret.arg.marks_history[i]) < 2) =>
        /\ \A slot \in 6..12 : ret.value[slot + 1] = 0
        /\ ret.value[14] = 100 * Len(ret.arg.marks_history)

\* C29: whenever is_trained holds, model and calibrated_model are both fully
\* fitted classifiers; a train call that raises on a trained predictor leaves
\* the previously trained pair in place.
C29_TrainedImpliesFitted ==
    is_trained =>
        (model.state = "fitted" /\ calibrated_model.state = "fitted")

\* the part of C29 about train alone: a train call that raises leaves the
\* pair of estimators as it was
C29_FailedTrainKeepsPair ==
    [][(ret.op = "idle" /\ ret'.op = "train" /\ ret'.outcome # "ok") =>
           (model' = model /\ calibrated_model' = calibrated_model)]_vars

\* what the code keeps: a train call that returns normally leaves a trained
\* predictor whose two estimators are fitted
C29_CompletedTrainIsFitted ==
    (ret.op = "train" /\ ret.outcome = "ok") =>
        (is_trained /\ model.state = "fitted" /\ calibrated_model.state = "fitted")

\* the k-th catalog intervention has a candidate magnitude that, applied
\* alone, brings the predicted probability of the student of the call in ret
\* to target_risk or below
ReachesTarget(k) ==
    \E d \in 1..Len(interventions[k].delta_range) :
        AloneRisk(k, d) <= ret.arg.target_risk

\* the catalog positions of the intervention a path entry reports
ReportedEntries(entry) ==
    {k \in 1..Len(interventions) : interventions[k].name = entry.action}

\* C30, first half: when find_minimal_safe_path reports "solution_found", no
\* catalog intervention with a strictly lower effort cost than the reported
\* one has a candidate magnitude whose predicted probability is at most
\* target_risk.
C30_ReportedIsCheapest ==
    (Returned("find_minimal_safe_path") /\ ret.value.status = "solution_found") =>
        \A r \in ReportedEntries(ret.value.path[1]) :
            \A k \in 1..Len(interventions) :
                interventions[k].effort_cost < interventions[r].effort_cost
                    => ~ReachesTarget(k)

\* C30, second half: for a student above the target, whenever some catalog
\* intervention has a candidate magnitude reaching the target, the status
\* is "solution_found".
C30_ReachableIsFound ==
    (Returned("find_minimal_safe_path")
        /\ CurrentProbability > ret.arg.target_risk
        /\ \E k \in 1..Len(interventions) : ReachesTarget(k)) =>
        ret.value.status = "solution_found"

\* C30: a "solution_found" answer reports an intervention of minimum effort
\* cost among those that can reach the target, and the status is
\* "solution_found" whenever some catalog intervention can reach it.
C30_MinimalSafePath ==
    C30_ReportedIsCheapest /\ C30_ReachableIsFound

\* what the code keeps: for a student above the target the status is
\* "solution_found" exactly when one of the at most three ranked results
\* has a predicted probability of at most target_risk
C30_FoundWithinRanked ==
    (Returned("find_minimal_safe_path")
        /\ CurrentProbability > ret.arg.target_risk) =>
        (ret.value.status = "solution_found"
            <=> \E i \in 1..Len(RankedOutput) :
                   RankedOutput[i].predicted_risk <= ret.arg.target_risk)

====
